---- MODULE Spec2Model ----
(***************************************************************************)
(* Knowledge-graph build (src/services/kg_service.py) and graph retrieval  *)
(* (src/services/kg_retriever_service.py) over the kg_nodes / kg_edges     *)
(* store.                                                                  *)
(*                                                                         *)
(* Similarities, weights and thresholds are fixed-point numbers in units   *)
(* of 1/SCALE (0.82 is 82000).  An embedding is [dim, vec]: a vector of    *)
(* `dim` components whose first two components are `vec` and whose other   *)
(* components are zero; is_list = FALSE stands for a missing or non-list   *)
(* embedding.                                                              *)
(***************************************************************************)
EXTENDS Integers, Sequences, FiniteSets, TLC

\* ------------------------------------------------------------------ bounds
MaxChunks == 3
MaxRuns == 2
MaxEdges == 2
MaxItems == 4

\* ------------------------------------------------------- program constants
_EMBEDDING_DIM == 1536
\* fixed-point unit: five decimal digits
SCALE == 10 * 10 * 10 * 10 * 10
Tenant == "t1"
Client == "c1"

VARIABLES
  chunk_table,          \* rows of the chunks table that carry an embedding, in the RPC's order
  cfg,                  \* KGBuildConfig of the build calls
  kg_nodes,             \* rows of kg_nodes
  kg_edges,             \* rows of kg_edges
  pc,                   \* position of the build call: idle, nodes, edges, done, failed
  all_chunks,           \* build local: the fetched chunks
  valid_chunks,         \* build local: chunks with a valid embedding
  skipped,              \* build local
  chunk_id_to_node_id,  \* build local
  nodes_upserted,       \* build local
  edges_upserted,       \* build local
  node_calls,           \* node_keys passed to upsert_node by the current call, in order
  plan,                 \* build local: the upsert_edge calls drawn from the similarity matrix
  edge_calls,           \* [i, j, src_id, dst_id, weight] passed to upsert_edge by the current call
  result,               \* <<dict>> returned by the current call, <<>> until it returns
  prev_result,          \* <<dict>> returned by the previous call
  nodes_before,         \* kg_nodes when the current call started
  edges_before,         \* kg_edges when the current call started
  runs,                 \* number of build calls started
  raised,               \* the exception the current build call ended with ("" for none)
  query_sim,            \* similarity of each node's embedding to the query embedding
  rcfg,                 \* KGRetrieverService fields: top_k, hop_limit, max_neighbours, min_edge_weight
  r_pc,                 \* position of the retrieve call: idle, seeds, done, raised
  seed_nodes,           \* retrieve local: rows returned by _vector_search
  seed_pos,             \* retrieve local: position of the "for node in seed_nodes" loop
  seen_ids,             \* retrieve local
  documents,            \* retrieve local: the Documents, as [node_id, source, has_score, similarity_score, via]
  edge_reads,           \* number of kg_edges queries the retrieve call has issued
  io_errors,            \* the store queries of the retrieve call that raised, as logged
  f_pc,                 \* position of a page-by-page chunk fetch: idle, paging, done, raised
  f_chunks,             \* fetch local: chunks
  f_offset,             \* fetch local: offset
  f_pages,              \* number of fetch_chunks_with_embeddings calls the fetch has made
  f_stop,               \* the break the fetch loop left through: empty, cap, short ("" before)
  f_changes,            \* number of writes other sessions made to the chunks table meanwhile
  builds,               \* concurrent build calls: the locals and position of each
  node_age,             \* days since last_seen_at, by kg_nodes id
  edge_age,             \* days since last_seen_at, by kg_edges natural key
  node_evidence,        \* number of node_evidence rows, by kg_nodes id
  edge_evidence,        \* number of edge_evidence rows, by kg_edges natural key
  prune_req,            \* the PruneRequest of the prune call
  prune_result,         \* <<PruneResponse>> of the last prune call, <<>> before and when it raised
  pre_prune,            \* <<the store>> as the last prune call found it
  p_pc,                 \* position of the prune call: idle, done, raised
  p_at_run,             \* the number of build calls started when the last prune call ran
  caller,               \* the layer that called the retriever: ask, agent, workflow
  attempt,              \* RAGState attempt of the workflow (1 for the other callers)
  a_pc,                 \* position of the caller: idle, retrieving, responded, raised
  response,             \* <<what the caller returned>>, <<>> before and when it raised
  jobs,                 \* ingest router: the _jobs dict, job_id -> entry
  job_task,             \* by job_id: the endpoint that returned it and where its background task is
  poll,                 \* <<the last answer of GET /ingest/status/{job_id}>>
  batch_entry,          \* <<the _batches entry of a batch>>, <<>> before the batch is posted
  b_pc,                 \* position of the batch's background task: idle, queued, items, finalised
  d_node,               \* _node_to_document: the node row
  d_chunk,              \* what the chunks query of _get_chunk_content answers
  d_doc                 \* <<the Document>>, <<>> before the call

bvars == <<chunk_table, cfg, kg_nodes, kg_edges, pc, all_chunks, valid_chunks, skipped,
           chunk_id_to_node_id, nodes_upserted, edges_upserted, node_calls, plan,
           edge_calls, result, prev_result, nodes_before, edges_before, runs, raised>>

rvars == <<query_sim, rcfg, r_pc, seed_nodes, seed_pos, seen_ids, documents, edge_reads,
           io_errors>>

fvars == <<f_pc, f_chunks, f_offset, f_pages, f_stop, f_changes>>

\* the variables neither the build nor the retrieval uses
cvars == <<builds>>

pvars == <<node_age, edge_age, node_evidence, edge_evidence, prune_req, prune_result,
           pre_prune, p_pc, p_at_run>>

avars == <<caller, attempt, a_pc, response>>

ivars == <<jobs, job_task, poll, batch_entry, b_pc>>

dvars == <<d_node, d_chunk, d_doc>>

xvars == <<fvars, cvars, pvars, avars, ivars, dvars>>

vars == <<bvars, rvars, xvars>>

\* ----------------------------------------------------------------- helpers
Range(s) == {s[k] : k \in 1..Len(s)}

Min(a, b) == IF a <= b THEN a ELSE b

SubSeqFrom(s, lo, hi) == [k \in 1..(IF hi >= lo THEN hi - lo + 1 ELSE 0) |-> s[lo + k - 1]]

\* np.linalg.norm of one row: the integer square root of the sum of squares
\* (exact for the vectors of Vectors, which all have an integer norm).
Abs(x) == IF x < 0 THEN 0 - x ELSE x

Norm(v) == CHOOSE r \in 0..(Abs(v[1]) + Abs(v[2])) :
             /\ r * r <= v[1] * v[1] + v[2] * v[2]
             /\ (r + 1) * (r + 1) > v[1] * v[1] + v[2] * v[2]

\* norms[norms == 0] = 1.0
GuardedNorm(v) == IF Norm(v) = 0 THEN 1 ELSE Norm(v)

_cosine_sim_matrix_half_normalised(vectors) ==
  [i \in 1..Len(vectors) |-> [j \in 1..Len(vectors) |->
     ((vectors[i][1] * vectors[j][1] + vectors[i][2] * vectors[j][2]) * SCALE)
        \div GuardedNorm(vectors[i])]]

\* v = vectors / norms ; v @ v.T
_cosine_sim_matrix(vectors) ==
  [i \in 1..Len(vectors) |-> [j \in 1..Len(vectors) |->
     ((vectors[i][1] * vectors[j][1] + vectors[i][2] * vectors[j][2]) * SCALE)
        \div (GuardedNorm(vectors[i]) * GuardedNorm(vectors[j]))]]

\* ------------------------------------------------------------ input space
\* Direction vectors with integer norms: cosines 0.96, 0.96923, 0.86153, 0.71005.
Vectors == {<<3, 4>>, <<4, 3>>, <<5, 12>>, <<12, 5>>}

EmbeddingValues ==
  {[is_list |-> FALSE, dim |-> 0, vec |-> <<0, 0>>],
   [is_list |-> TRUE, dim |-> 3, vec |-> <<3, 4>>]}
  \cup {[is_list |-> TRUE, dim |-> _EMBEDDING_DIM, vec |-> v] : v \in Vectors}

\* Chunk tables of up to MaxChunks rows; row k has id k.
ChunkTables ==
  UNION {{[k \in 1..n |-> [id |-> k, embedding |-> f[k]]] : f \in [1..n -> EmbeddingValues]}
         : n \in 0..MaxChunks}

\* KGBuildConfig values: the defaults, a threshold that equals one of the cosines,
\* small fan-out caps, and a page size / cap small enough to page and truncate.
Configs ==
  {[similarity_threshold |-> t, max_edges_per_chunk |-> m, max_chunks |-> p[1],
    batch_size |-> p[2], rel_type |-> "related_to"] :
     t \in {82000, 96000}, m \in {1, 2}, p \in {<<2000, 500>>, <<2, 2>>}}

DefaultBuildConfig ==
  [similarity_threshold |-> 82000, max_edges_per_chunk |-> 10, max_chunks |-> 2000,
   batch_size |-> 500, rel_type |-> "related_to"]

\* ------------------------------------------------------------ chunk fetch
\* RPC fetch_chunks_with_embeddings: rows offset+1 .. offset+limit of the scope.
fetch_chunks_with_embeddings(table, limit, offset) ==
  SubSeqFrom(table, offset + 1, Min(Len(table), offset + limit))

RECURSIVE FetchLoopNoTruncate(_, _, _, _)
FetchLoopNoTruncate(table, c, chunks, offset) ==
  LET batch == fetch_chunks_with_embeddings(table, c.batch_size, offset)
      ext == chunks \o batch
  IN IF batch = <<>> THEN chunks
     ELSE IF Len(ext) >= c.max_chunks THEN ext
     ELSE IF Len(batch) < c.batch_size THEN ext
     ELSE FetchLoopNoTruncate(table, c, ext, offset + c.batch_size)

\* The "while True" loop of _fetch_all_chunks_paginated over a table nobody writes
\* to meanwhile, from the state (chunks, offset).
RECURSIVE FetchLoop(_, _, _, _)
FetchLoop(table, c, chunks, offset) ==
  LET batch == fetch_chunks_with_embeddings(table, c.batch_size, offset)
      ext == chunks \o batch
  IN IF batch = <<>> THEN chunks
     ELSE IF Len(ext) >= c.max_chunks THEN SubSeq(ext, 1, c.max_chunks)
     ELSE IF Len(batch) < c.batch_size THEN ext
     ELSE FetchLoop(table, c, ext, offset + c.batch_size)

_fetch_all_chunks_paginated(table, c) == FetchLoop(table, c, <<>>, 0)

\* -------------------------------------------------- embedding validation
AnyListIsValid(emb) == emb.is_list

\* isinstance(emb, list) and len(emb) == _EMBEDDING_DIM
IsValidEmbedding(emb) == emb.is_list /\ emb.dim = _EMBEDDING_DIM

IsValidChunk(c) == IsValidEmbedding(c.embedding)

\* ---------------------------------------------------------- edge drawing
SimsRowUnmasked(sim, i) == sim[i]

\* sims_i = sim[i].copy(); sims_i[i] = -1.0
SimsRow(sim, i) == [sim[i] EXCEPT ![i] = 0 - SCALE]

MeetsThresholdStrict(s, threshold) == s > threshold

\* sims_i >= cfg.similarity_threshold
MeetsThreshold(s, threshold) == s >= threshold

\* np.where(sims_i >= cfg.similarity_threshold)[0]
CandIdx(sims_i, threshold) == {j \in DOMAIN sims_i : MeetsThreshold(sims_i[j], threshold)}

RECURSIVE ArgsortOfIndices(_, _)
ArgsortOfIndices(S, w) ==
  IF S = {} THEN <<>>
  ELSE LET m == CHOOSE x \in S : \A y \in S : y <= x
       IN <<m>> \o ArgsortOfIndices(S \ {m}, w)

\* np.argsort(...)[::-1]: ascending stable sort, reversed, so descending by
\* similarity with equal similarities in descending index order.
RECURSIVE ArgsortReversed(_, _)
ArgsortReversed(S, w) ==
  IF S = {} THEN <<>>
  ELSE LET m == CHOOSE x \in S : \A y \in S : w[y] < w[x] \/ (w[y] = w[x] /\ y <= x)
       IN <<m>> \o ArgsortReversed(S \ {m}, w)

RECURSIVE ArgsortAscending(_, _)
ArgsortAscending(S, w) ==
  IF S = {} THEN <<>>
  ELSE LET m == CHOOSE x \in S : \A y \in S : w[x] < w[y] \/ (w[y] = w[x] /\ x <= y)
       IN <<m>> \o ArgsortAscending(S \ {m}, w)

CandSortedNoReverse(sims_i, c) ==
  LET s == ArgsortAscending(CandIdx(sims_i, c.similarity_threshold), sims_i)
  IN SubSeq(s, 1, Min(Len(s), c.max_edges_per_chunk))

\* cand_idx[np.argsort(sims_i[cand_idx])[::-1]][: cfg.max_edges_per_chunk]
CandSorted(sims_i, c) ==
  LET s == ArgsortReversed(CandIdx(sims_i, c.similarity_threshold), sims_i)
  IN SubSeq(s, 1, Min(Len(s), c.max_edges_per_chunk))

\* The upsert_edge calls of the loops "for i in range(n): for j in cand_sorted",
\* in call order, as [i, j, weight].
RECURSIVE EdgePlanFrom(_, _, _)
EdgePlanFrom(sim, c, i) ==
  IF i > Len(sim) THEN <<>>
  ELSE LET sims_i == SimsRow(sim, i)
           cs == CandSorted(sims_i, c)
       IN [k \in 1..Len(cs) |-> [i |-> i, j |-> cs[k], weight |-> sims_i[cs[k]]]]
          \o EdgePlanFrom(sim, c, i + 1)

EdgePlan(valid, c) ==
  EdgePlanFrom(_cosine_sim_matrix([k \in 1..Len(valid) |-> valid[k].embedding.vec]), c, 1)

\* ------------------------------------------------------------------ store
\* A kg_nodes row: [id, tenant, client, node_key, type, status].
\* A kg_edges row: [tenant, client, src_id, dst_id, rel_type, weight, is_active].
NodeKeyOf(r) == <<r.tenant, r.client, r.node_key>>

EdgeKeyOf(r) == <<r.tenant, r.client, r.src_id, r.dst_id, r.rel_type>>

NodeKeys(nodes) == {NodeKeyOf(r) : r \in nodes}

EdgeKeys(edges) == {EdgeKeyOf(r) : r \in edges}

\* RPC upsert_kg_node: update the row with this natural key, or insert one under
\* a fresh surrogate id.
upsert_kg_node(nodes, t, c, node_key, type, status) ==
  IF \E r \in nodes : NodeKeyOf(r) = <<t, c, node_key>>
  THEN {IF NodeKeyOf(r) = <<t, c, node_key>> THEN [r EXCEPT !.type = type, !.status = status]
        ELSE r : r \in nodes}
  ELSE nodes \cup {[id |-> Cardinality(nodes) + 1, tenant |-> t, client |-> c,
                    node_key |-> node_key, type |-> type, status |-> status]}

\* The surrogate id the RPC returns.
NodeIdOf(nodes, t, c, node_key) ==
  (CHOOSE r \in nodes : NodeKeyOf(r) = <<t, c, node_key>>).id

\* RPC upsert_kg_edge: update the row with this natural key (new weight, active
\* again), or insert one.
upsert_kg_edge(edges, t, c, src, dst, rel, weight) ==
  LET row == [tenant |-> t, client |-> c, src_id |-> src, dst_id |-> dst,
              rel_type |-> rel, weight |-> weight, is_active |-> TRUE]
  IN {r \in edges : EdgeKeyOf(r) # EdgeKeyOf(row)} \cup {row}

\* ------------------------------------------------------------ build steps
ChunkNodeKeyByIndex(chunk_id) == <<"chunk", 0>>

ChunkNodeStatusPending == "pending_linking"

ChunkNodeStatusArchived == "archived"

\* status="active"
ChunkNodeStatus == "active"

\* node_key=f"chunk:{chunk_id}"
ChunkNodeKey(chunk_id) == <<"chunk", chunk_id>>

CountIfNewNode(n, existed) == IF existed THEN n ELSE n + 1

\* nodes_upserted += 1
CountNodeUpsert(n, existed) == n + 1

NoChunksResult ==
  [chunks_fetched |-> 0, chunks_valid |-> 0, chunks_skipped |-> 0,
   nodes_upserted |-> 0, edges_upserted |-> 0, note |-> "No embedded chunks found."]

NoValidResultWithoutNote(fetched, skip) ==
  [chunks_fetched |-> Len(fetched), chunks_valid |-> 0, chunks_skipped |-> skip,
   nodes_upserted |-> 0, edges_upserted |-> 0, note |-> ""]

NoValidResult(fetched, skip) ==
  [chunks_fetched |-> Len(fetched), chunks_valid |-> 0, chunks_skipped |-> skip,
   nodes_upserted |-> 0, edges_upserted |-> 0, note |-> "No chunks had valid embeddings."]

BuildResult(fetched, valid, skip, n_nodes, n_edges) ==
  [chunks_fetched |-> Len(fetched), chunks_valid |-> Len(valid), chunks_skipped |-> skip,
   nodes_upserted |-> n_nodes, edges_upserted |-> n_edges, note |-> ""]

\* build_kg_from_chunk_embeddings(config = c) from the return of the fetch
\* (all_chunks = fetched) up to the first upsert: validate, and the two early
\* returns.
BuildBeginOver(c, fetched) ==
  /\ runs < MaxRuns
  /\ cfg' = c
  /\ LET valid == SelectSeq(fetched, IsValidChunk)
         skip == Len(fetched) - Len(valid)
     IN /\ all_chunks' = fetched
        /\ valid_chunks' = valid
        /\ skipped' = skip
        /\ result' = IF fetched = <<>> THEN <<NoChunksResult>>
                     ELSE IF valid = <<>> THEN <<NoValidResult(fetched, skip)>>
                     ELSE <<>>
        /\ pc' = IF valid = <<>> THEN "done" ELSE "nodes"
  /\ runs' = runs + 1
  /\ prev_result' = result
  /\ nodes_before' = kg_nodes
  /\ edges_before' = kg_edges
  /\ chunk_id_to_node_id' = <<>>
  /\ nodes_upserted' = 0
  /\ edges_upserted' = 0
  /\ node_calls' = <<>>
  /\ plan' = <<>>
  /\ edge_calls' = <<>>
  /\ raised' = ""
  /\ UNCHANGED <<chunk_table, kg_nodes, kg_edges>>
  /\ UNCHANGED <<rvars, xvars>>

\* The same with the fetch, over a chunks table nothing writes to meanwhile.
BuildBeginWith(c) == BuildBeginOver(c, _fetch_all_chunks_paginated(chunk_table, c))

BuildBegin == BuildBeginWith(cfg)

\* The KGBuildConfig values a later request may carry: the threshold of the
\* request, the other fields as before.
RebuildConfigs(c) == {[c EXCEPT !.similarity_threshold = t] : t \in {82000, 96000}}

\* POST /admin/rebuild-kg after an earlier build has returned: the build runs
\* with the request's config over the store as it is; nothing is deleted first.
RebuildKG ==
  /\ pc = "done"
  /\ \E c \in RebuildConfigs(cfg) : BuildBeginWith(c)

\* Between two builds an ingest stores the first chunk of the scope again, with
\* the embedding of its new text.
ChunkReembedded ==
  /\ pc = "done"
  /\ runs < MaxRuns
  /\ chunk_table # <<>>
  /\ \E v \in {<<3, 4>>, <<12, 5>>} :
       /\ chunk_table[1].embedding.vec # v
       /\ chunk_table' = [chunk_table EXCEPT ![1].embedding.vec = v]
  /\ UNCHANGED <<cfg, kg_nodes, kg_edges, pc, all_chunks, valid_chunks, skipped,
                 chunk_id_to_node_id, nodes_upserted, edges_upserted, node_calls, plan,
                 edge_calls, result, prev_result, nodes_before, edges_before, runs, raised>>
  /\ UNCHANGED <<rvars, xvars>>

\* A build call on a service no build call is running on.
BuildStart ==
  /\ pc \in {"idle", "done"}
  /\ BuildBegin

\* The same build is called again after a call that ended with an exception
\* part-way through its upserts.
RetryAfterFailure ==
  /\ pc = "failed"
  /\ BuildBegin

\* The build goes on from a fetch that ran page by page while other sessions
\* wrote to the chunks table.
BuildAfterFetch ==
  /\ f_pc = "done"
  /\ pc = "idle"
  /\ BuildBeginOver(cfg, f_chunks)

\* One iteration of "for c in valid_chunks": upsert_node succeeds.  After the
\* last chunk the similarity matrix is computed; with no edge to draw the call
\* returns.
UpsertNode ==
  /\ pc = "nodes"
  /\ LET c == valid_chunks[Len(node_calls) + 1]
         key == ChunkNodeKey(c.id)
         existed == \E r \in kg_nodes : NodeKeyOf(r) = <<Tenant, Client, key>>
         stored == upsert_kg_node(kg_nodes, Tenant, Client, key, "Chunk", ChunkNodeStatus)
         n_nodes == CountNodeUpsert(nodes_upserted, existed)
         last == Len(node_calls) + 1 = Len(valid_chunks)
         drawn == IF last THEN EdgePlan(valid_chunks, cfg) ELSE <<>>
     IN /\ kg_nodes' = stored
        /\ plan' = drawn
        /\ chunk_id_to_node_id' =
             [k \in DOMAIN chunk_id_to_node_id \cup {c.id} |->
                IF k = c.id THEN NodeIdOf(stored, Tenant, Client, key)
                ELSE chunk_id_to_node_id[k]]
        /\ nodes_upserted' = n_nodes
        /\ node_calls' = Append(node_calls, key)
        /\ pc' = IF ~last THEN "nodes" ELSE IF drawn = <<>> THEN "done" ELSE "edges"
        /\ result' = IF last /\ drawn = <<>>
                     THEN <<BuildResult(all_chunks, valid_chunks, skipped, n_nodes, 0)>>
                     ELSE result
  /\ UNCHANGED <<chunk_table, cfg, kg_edges, all_chunks, valid_chunks, skipped,
                 edges_upserted, edge_calls, prev_result, nodes_before, edges_before, runs,
                 raised>>
  /\ UNCHANGED <<rvars, xvars>>

\* The upsert_kg_node RPC raises: nothing in the build catches it, the call ends
\* with the exception.
UpsertNodeRaises ==
  /\ pc = "nodes"
  /\ pc' = "failed"
  /\ raised' = "upsert_node"
  /\ UNCHANGED <<chunk_table, cfg, kg_nodes, kg_edges, all_chunks, valid_chunks, skipped,
                 chunk_id_to_node_id, nodes_upserted, edges_upserted, node_calls, plan,
                 edge_calls, result, prev_result, nodes_before, edges_before, runs>>
  /\ UNCHANGED <<rvars, xvars>>

EdgeEndpointChunkId(map, valid, idx) == valid[idx].id

\* chunk_id_to_node_id[valid_chunks[i]["id"]]: the surrogate id upsert_node
\* returned for the chunk at position idx.
EdgeEndpoint(map, valid, idx) == map[valid[idx].id]

\* One iteration of "for j in cand_sorted": upsert_edge succeeds.  After the last
\* edge the call returns its summary.
UpsertEdge ==
  /\ pc = "edges"
  /\ LET e == plan[Len(edge_calls) + 1]
         src == EdgeEndpoint(chunk_id_to_node_id, valid_chunks, e.i)
         dst == EdgeEndpoint(chunk_id_to_node_id, valid_chunks, e.j)
         last == Len(edge_calls) + 1 = Len(plan)
     IN /\ kg_edges' = upsert_kg_edge(kg_edges, Tenant, Client, src, dst,
                                      cfg.rel_type, e.weight)
        /\ edge_calls' = Append(edge_calls, [i |-> e.i, j |-> e.j, src_id |-> src,
                                             dst_id |-> dst, weight |-> e.weight])
        /\ edges_upserted' = edges_upserted + 1
        /\ pc' = IF last THEN "done" ELSE "edges"
        /\ result' = IF last
                     THEN <<BuildResult(all_chunks, valid_chunks, skipped, nodes_upserted,
                                        edges_upserted + 1)>>
                     ELSE result
  /\ UNCHANGED <<chunk_table, cfg, kg_nodes, all_chunks, valid_chunks, skipped,
                 chunk_id_to_node_id, nodes_upserted, node_calls, plan, prev_result,
                 nodes_before, edges_before, runs, raised>>
  /\ UNCHANGED <<rvars, xvars>>

\* The upsert_kg_edge RPC raises: the call ends with the exception.
UpsertEdgeRaises ==
  /\ pc = "edges"
  /\ pc' = "failed"
  /\ raised' = "upsert_edge"
  /\ UNCHANGED <<chunk_table, cfg, kg_nodes, kg_edges, all_chunks, valid_chunks, skipped,
                 chunk_id_to_node_id, nodes_upserted, edges_upserted, node_calls, plan,
                 edge_calls, result, prev_result, nodes_before, edges_before, runs>>
  /\ UNCHANGED <<rvars, xvars>>

\* ==================================================== page-by-page fetch
\* _fetch_all_chunks_paginated one RPC call at a time, over a chunks table that
\* ingests and document deletions of other sessions write to between the pages.
MaxTableChanges == 1

\* Chunk tables for paging: up to MaxChunks rows, which all carry the same
\* embedding, a valid one or none.
FetchTables ==
  {[k \in 1..n |-> [id |-> k, embedding |-> e]] :
     n \in 0..MaxChunks,
     e \in {[is_list |-> TRUE, dim |-> _EMBEDDING_DIM, vec |-> <<3, 4>>],
            [is_list |-> FALSE, dim |-> 0, vec |-> <<0, 0>>]}}

\* Page sizes and caps: the defaults, a cap met by one full page, a page larger
\* than the cap, pages of one row under a cap of three, and small pages under
\* the default cap.
FetchConfigs ==
  {[similarity_threshold |-> 82000, max_edges_per_chunk |-> 10, max_chunks |-> p[1],
    batch_size |-> p[2], rel_type |-> "related_to"] :
     p \in {<<2000, 500>>, <<2, 2>>, <<1, 2>>, <<3, 1>>, <<2000, 1>>, <<2000, 2>>}}

\* One iteration of the "while True" loop whose RPC call answers.
FetchPage ==
  /\ f_pc = "paging"
  /\ LET batch == fetch_chunks_with_embeddings(chunk_table, cfg.batch_size, f_offset)
         ext == f_chunks \o batch
     IN IF batch = <<>>
        THEN /\ f_pc' = "done"
             /\ f_stop' = "empty"
             /\ UNCHANGED <<f_chunks, f_offset>>
        ELSE IF Len(ext) >= cfg.max_chunks
        THEN /\ f_chunks' = SubSeq(ext, 1, cfg.max_chunks)
             /\ f_pc' = "done"
             /\ f_stop' = "cap"
             /\ UNCHANGED f_offset
        ELSE IF Len(batch) < cfg.batch_size
        THEN /\ f_chunks' = ext
             /\ f_pc' = "done"
             /\ f_stop' = "short"
             /\ UNCHANGED f_offset
        ELSE /\ f_chunks' = ext
             /\ f_offset' = f_offset + cfg.batch_size
             /\ UNCHANGED <<f_pc, f_stop>>
  /\ f_pages' = f_pages + 1
  /\ UNCHANGED <<bvars, rvars, cvars, pvars, avars, ivars, dvars, f_changes>>

\* The RPC call raises: nothing in the fetch catches it.
FetchPageRaises ==
  /\ f_pc = "paging"
  /\ f_pc' = "raised"
  /\ f_pages' = f_pages + 1
  /\ UNCHANGED <<bvars, rvars, cvars, pvars, avars, ivars, dvars, f_chunks, f_offset, f_stop, f_changes>>

\* What a write to the chunks table leaves of the build's variables.
ChunkTableWritten ==
  /\ f_changes' = f_changes + 1
  /\ UNCHANGED <<cfg, kg_nodes, kg_edges, pc, all_chunks, valid_chunks, skipped,
                 chunk_id_to_node_id, nodes_upserted, edges_upserted, node_calls, plan,
                 edge_calls, result, prev_result, nodes_before, edges_before, runs, raised>>
  /\ UNCHANGED <<rvars, cvars, pvars, avars, ivars, dvars, f_pc, f_chunks, f_offset, f_pages, f_stop>>

\* An ingest of another session stores a chunk with its embedding between two
\* pages; the row sorts first or last in the RPC's order.
ChunkInserted ==
  /\ f_pc = "paging"
  /\ f_changes < MaxTableChanges
  /\ LET row == [id |-> MaxChunks + f_changes + 1,
                 embedding |-> [is_list |-> TRUE, dim |-> _EMBEDDING_DIM, vec |-> <<3, 4>>]]
     IN chunk_table' \in {<<row>> \o chunk_table, Append(chunk_table, row)}
  /\ ChunkTableWritten

\* A document of the scope is deleted between two pages and its chunk, the first
\* row in the RPC's order, goes with it.
DocumentDeleted ==
  /\ f_pc = "paging"
  /\ f_changes < MaxTableChanges
  /\ chunk_table # <<>>
  /\ chunk_table' = Tail(chunk_table)
  /\ ChunkTableWritten

\* ===================================================== concurrent builds
\* Two build calls over the same scope, chunk set and config, each running the
\* code of build_kg_from_chunk_embeddings on its own locals; a store call (one
\* RPC) is one step, and the steps of the two calls interleave in any order.
Procs == {1, 2}

\* Chunk tables whose rows all carry a valid embedding, in one of three directions
\* (cosines 0.96923, 0.86153 and 0.71005).
ConcurrentTables ==
  UNION {{[k \in 1..n |-> [id |-> k,
                           embedding |-> [is_list |-> TRUE, dim |-> _EMBEDDING_DIM,
                                          vec |-> f[k]]]] :
            f \in [1..n -> {<<3, 4>>, <<5, 12>>, <<12, 5>>}]}
         : n \in 0..MaxChunks}

\* The default config with small fan-out caps.
ConcurrentConfigs ==
  {[DefaultBuildConfig EXCEPT !.max_edges_per_chunk = m] : m \in {1, 2}}

NotStarted ==
  [pc |-> "idle", all_chunks |-> <<>>, valid_chunks |-> <<>>, skipped |-> 0,
   chunk_id_to_node_id |-> <<>>, nodes_upserted |-> 0, edges_upserted |-> 0,
   plan |-> <<>>, result |-> <<>>, overlapped |-> FALSE]

\* Bookkeeping: the other call is between its first and its last store call.
OtherRunning(p) == \E q \in Procs \ {p} : builds[q].pc \in {"nodes", "edges"}

\* The call of process p up to its first upsert.
StartOf(p) ==
  /\ builds[p].pc = "idle"
  /\ LET fetched == _fetch_all_chunks_paginated(chunk_table, cfg)
         valid == SelectSeq(fetched, IsValidChunk)
         skip == Len(fetched) - Len(valid)
     IN builds' = [builds EXCEPT ![p] =
          [NotStarted EXCEPT
             !.pc = IF valid = <<>> THEN "done" ELSE "nodes",
             !.all_chunks = fetched,
             !.valid_chunks = valid,
             !.skipped = skip,
             !.result = IF fetched = <<>> THEN <<NoChunksResult>>
                        ELSE IF valid = <<>> THEN <<NoValidResult(fetched, skip)>>
                        ELSE <<>>]]
  /\ UNCHANGED <<bvars, rvars, fvars, pvars, avars, ivars, dvars>>

\* What a step of the concurrent calls leaves of the single call's variables.
StoreCallFrame ==
  /\ UNCHANGED <<chunk_table, cfg, pc, all_chunks, valid_chunks, skipped,
                 chunk_id_to_node_id, nodes_upserted, edges_upserted, node_calls, plan,
                 edge_calls, result, prev_result, nodes_before, edges_before, runs, raised>>
  /\ UNCHANGED <<rvars, fvars, pvars, avars, ivars, dvars>>

\* One upsert_node call of process p.
NodeStepOf(p) ==
  /\ builds[p].pc = "nodes"
  /\ LET b == builds[p]
         c == b.valid_chunks[b.nodes_upserted + 1]
         key == ChunkNodeKey(c.id)
         stored == upsert_kg_node(kg_nodes, Tenant, Client, key, "Chunk", ChunkNodeStatus)
         n_nodes == CountNodeUpsert(b.nodes_upserted, FALSE)
         last == n_nodes = Len(b.valid_chunks)
         drawn == IF last THEN EdgePlan(b.valid_chunks, cfg) ELSE <<>>
     IN /\ kg_nodes' = stored
        /\ builds' = [builds EXCEPT ![p] =
             [b EXCEPT
                !.chunk_id_to_node_id =
                   [k \in DOMAIN b.chunk_id_to_node_id \cup {c.id} |->
                      IF k = c.id THEN NodeIdOf(stored, Tenant, Client, key)
                      ELSE b.chunk_id_to_node_id[k]],
                !.nodes_upserted = n_nodes,
                !.plan = drawn,
                !.overlapped = b.overlapped \/ OtherRunning(p),
                !.pc = IF ~last THEN "nodes" ELSE IF drawn = <<>> THEN "done" ELSE "edges",
                !.result = IF last /\ drawn = <<>>
                           THEN <<BuildResult(b.all_chunks, b.valid_chunks, b.skipped,
                                              n_nodes, 0)>>
                           ELSE <<>>]]
  /\ UNCHANGED kg_edges
  /\ StoreCallFrame

\* One upsert_edge call of process p.
EdgeStepOf(p) ==
  /\ builds[p].pc = "edges"
  /\ LET b == builds[p]
         e == b.plan[b.edges_upserted + 1]
         src == EdgeEndpoint(b.chunk_id_to_node_id, b.valid_chunks, e.i)
         dst == EdgeEndpoint(b.chunk_id_to_node_id, b.valid_chunks, e.j)
         last == b.edges_upserted + 1 = Len(b.plan)
     IN /\ kg_edges' = upsert_kg_edge(kg_edges, Tenant, Client, src, dst,
                                      cfg.rel_type, e.weight)
        /\ builds' = [builds EXCEPT ![p] =
             [b EXCEPT
                !.edges_upserted = b.edges_upserted + 1,
                !.overlapped = b.overlapped \/ OtherRunning(p),
                !.pc = IF last THEN "done" ELSE "edges",
                !.result = IF last
                           THEN <<BuildResult(b.all_chunks, b.valid_chunks, b.skipped,
                                              b.nodes_upserted, b.edges_upserted + 1)>>
                           ELSE <<>>]]
  /\ UNCHANGED kg_nodes
  /\ StoreCallFrame

\* A store call of process p raises: its call ends with the exception.
RaiseOf(p) ==
  /\ builds[p].pc \in {"nodes", "edges"}
  /\ builds' = [builds EXCEPT ![p].pc = "failed"]
  /\ UNCHANGED <<kg_nodes, kg_edges>>
  /\ StoreCallFrame

ConcurrentBuildStart == \E p \in Procs : StartOf(p)

ConcurrentUpsertNode == \E p \in Procs : NodeStepOf(p)

ConcurrentUpsertEdge == \E p \in Procs : EdgeStepOf(p)

ConcurrentUpsertRaises == \E p \in Procs : RaiseOf(p)

\* ================================================================ retrieval
\* ------------------------------------------------------------ input space
\* Surrogate ids of the kg_nodes rows of the stores retrieval is run on.
NodeIds == {1, 2, 3}

\* Stores: every node a Chunk node of the scope, at most one archived; up to
\* MaxEdges edges (self-loops included), each active at 0.90 or 0.80, active
\* below the default min_edge_weight (0.70), or inactive.
NodeStores ==
  {{[id |-> n, tenant |-> Tenant, client |-> Client, node_key |-> <<"chunk", n>>,
     type |-> "Chunk", status |-> IF n = a THEN "archived" ELSE "active"] : n \in NodeIds}
   : a \in {0, 2, 3}}

EdgeRows ==
  {[tenant |-> Tenant, client |-> Client, src_id |-> k[1], dst_id |-> k[2],
    rel_type |-> "related_to", weight |-> a[1], is_active |-> a[2]] :
     k \in NodeIds \X NodeIds,
     a \in {<<90000, TRUE>>, <<80000, TRUE>>, <<70000, TRUE>>, <<90000, FALSE>>}}

RECURSIVE EdgeStoresUpTo(_)
EdgeStoresUpTo(n) ==
  IF n = 0 THEN {{}}
  ELSE LET smaller == EdgeStoresUpTo(n - 1)
       IN smaller \cup
          UNION {{E \cup {r} : r \in {x \in EdgeRows : \A y \in E : EdgeKeyOf(x) # EdgeKeyOf(y)}}
                 : E \in smaller}

EdgeStores == EdgeStoresUpTo(MaxEdges)

\* A store shared with another client and another tenant: the edges of the
\* scope, and one active edge of weight 0.90 that belongs to the other.
SharedEdgeStores ==
  {E \cup {[r EXCEPT !.tenant = o[1], !.client = o[2]]} :
     E \in EdgeStoresUpTo(1),
     r \in {x \in EdgeRows : x.is_active /\ x.weight = 90000},
     o \in {<<Tenant, "c2">>, <<"t2", Client>>}}

\* Query embeddings, by the similarity they have to each node.
QuerySims == {<<91234, 72000, 65000>>, <<59996, 91234, 40000>>}

\* KGRetrieverService fields: the defaults (top_k 5, hop_limit 1, max_neighbours 3,
\* min_edge_weight 0.75) and variations of top_k, hop_limit and max_neighbours.
RetrieverConfigs ==
  {[top_k |-> c[1], hop_limit |-> c[2], max_neighbours |-> c[3], min_edge_weight |-> 75000] :
     c \in {<<5, 1, 3>>, <<2, 1, 3>>, <<2, 0, 3>>, <<2, 1, 1>>, <<1, 2, 3>>, <<1, 3, 3>>}}

\* ------------------------------------------------------------ store reads
\* The injective sequences of length n over S: the orders a query may return n rows in.
Orderings(S, n) ==
  {f \in [1..n -> S] : \A a \in 1..n : \A b \in 1..n : a # b => f[a] # f[b]}

\* RPC search_kg_nodes: the top_k active nodes of the scope by descending
\* similarity to the query (any order among equal similarities).
search_kg_nodes(nodes, sims, top_k) ==
  LET act == {r \in nodes : r.tenant = Tenant /\ r.client = Client /\ r.status = "active"}
      n == Min(top_k, Cardinality(act))
  IN {[k \in 1..n |-> [id |-> f[k].id, similarity |-> sims[f[k].id]]] :
        f \in {g \in Orderings(act, n) :
                 /\ \A a \in 1..n : \A b \in 1..n : a < b => sims[g[a].id] >= sims[g[b].id]
                 /\ \A r \in act \ Range(g) : \A a \in 1..n : sims[r.id] <= sims[g[a].id]}}

NeighbourIdListsAnyClient(edges, nid, c) ==
  LET Q == {r \in edges : /\ r.tenant = Tenant /\ r.src_id = nid
                          /\ r.is_active /\ r.weight >= c.min_edge_weight}
      n == Min(c.max_neighbours, Cardinality(Q))
  IN {[k \in 1..n |-> f[k].dst_id] :
        f \in {g \in Orderings(Q, n) :
                 /\ \A a \in 1..n : \A b \in 1..n : a < b => g[a].weight >= g[b].weight
                 /\ \A r \in Q \ Range(g) : \A a \in 1..n : r.weight <= g[a].weight}}

\* The kg_edges query of _get_neighbour_ids: eq tenant, client, src_id, is_active;
\* gte weight; order weight desc; limit max_neighbours.  The dst_id lists the
\* store may answer with.
NeighbourIdLists(edges, nid, c) ==
  LET Q == {r \in edges : /\ r.tenant = Tenant /\ r.client = Client /\ r.src_id = nid
                          /\ r.is_active /\ r.weight >= c.min_edge_weight}
      n == Min(c.max_neighbours, Cardinality(Q))
  IN {[k \in 1..n |-> f[k].dst_id] :
        f \in {g \in Orderings(Q, n) :
                 /\ \A a \in 1..n : \A b \in 1..n : a < b => g[a].weight >= g[b].weight
                 /\ \A r \in Q \ Range(g) : \A a \in 1..n : r.weight <= g[a].weight}}

\* The kg_nodes query of _fetch_nodes_by_ids: in_ id, eq tenant, eq status active,
\* no order.  The row lists the store may answer with.
NodeRowLists(nodes, ids) ==
  LET R == {r \in nodes : r.id \in Range(ids) /\ r.tenant = Tenant /\ r.status = "active"}
  IN Orderings(R, Cardinality(R))

\* ------------------------------------------------------------- documents
\* round(float(similarity), 4): to the nearest 10 units, halves to even.
Round4(x) ==
  LET q == x \div 10
      r == x % 10
  IN IF r < 5 THEN q * 10
     ELSE IF r > 5 THEN (q + 1) * 10
     ELSE IF q % 2 = 0 THEN q * 10 ELSE (q + 1) * 10

\* _node_to_document: `via` is bookkeeping, the seed whose iteration emitted it.
SeedDocument(node) ==
  [node_id |-> node.id, source |-> "vector", has_score |-> TRUE,
   similarity_score |-> Round4(node.similarity), via |-> node.id]

ExpansionDocument(nb, seed_id) ==
  [node_id |-> nb.id, source |-> "graph_expansion", has_score |-> FALSE,
   similarity_score |-> 0, via |-> seed_id]

NeverSeen(id, seen) == FALSE

\* nid in seen_ids
AlreadySeen(id, seen) == id \in seen

ExpandFromZero(hop_limit) == hop_limit >= 0

ExpandOnlyAtOne(hop_limit) == hop_limit = 1

\* self.hop_limit >= 1
ExpansionEnabled(hop_limit) == hop_limit >= 1

\* [n for n in ... if n not in seen_ids]
FilterUnseen(ids, seen) == SelectSeq(ids, LAMBDA n : n \notin seen)

\* for nb in rows: if nb_id not in seen_ids: seen_ids.add(nb_id); documents.append(...)
\* The pair <<seen_ids, documents>> after the loop.
RECURSIVE AppendExpansions(_, _, _, _)
AppendExpansions(rows, seed_id, seen, docs) ==
  IF rows = <<>> THEN <<seen, docs>>
  ELSE IF rows[1].id \in seen THEN AppendExpansions(Tail(rows), seed_id, seen, docs)
  ELSE AppendExpansions(Tail(rows), seed_id, seen \cup {rows[1].id},
                        Append(docs, ExpansionDocument(rows[1], seed_id)))

\* ---------------------------------------------------------- retrieve steps
\* self._embeddings.embed_query raises: nothing catches it, retrieve raises.
EmbedQueryRaises ==
  /\ r_pc = "idle"
  /\ r_pc' = "raised"
  /\ UNCHANGED <<query_sim, rcfg, seed_nodes, seed_pos, seen_ids, documents, edge_reads,
                 io_errors>>
  /\ UNCHANGED <<bvars, xvars>>

\* _get_relevant_documents up to the loop over the seeds; with no seed the call
\* returns the empty list.
RetrieveStart ==
  /\ r_pc = "idle"
  /\ \E rows \in search_kg_nodes(kg_nodes, query_sim, rcfg.top_k) :
       /\ seed_nodes' = rows
       /\ r_pc' = IF rows = <<>> THEN "done" ELSE "seeds"
  /\ seed_pos' = 1
  /\ seen_ids' = {}
  /\ documents' = <<>>
  /\ UNCHANGED <<query_sim, rcfg, edge_reads, io_errors>>
  /\ UNCHANGED <<bvars, xvars>>

\* The search_kg_nodes RPC raises: _vector_search logs and returns [], and the
\* call returns the empty list.
VectorSearchRaises ==
  /\ r_pc = "idle"
  /\ seed_nodes' = <<>>
  /\ r_pc' = "done"
  /\ seed_pos' = 1
  /\ seen_ids' = {}
  /\ documents' = <<>>
  /\ io_errors' = Append(io_errors, "search_kg_nodes")
  /\ UNCHANGED <<query_sim, rcfg, edge_reads>>
  /\ UNCHANGED <<bvars, xvars>>

\* The position after one iteration of "for node in seed_nodes"; after the last
\* seed the call returns documents.
SeedLoopAdvance ==
  /\ seed_pos' = seed_pos + 1
  /\ r_pc' = IF seed_pos = Len(seed_nodes) THEN "done" ELSE "seeds"
  /\ UNCHANGED <<query_sim, rcfg, seed_nodes>>
  /\ UNCHANGED <<bvars, xvars>>

\* One iteration of the seed loop in which every store query answers, with
\* self.hop_limit read as h.
VisitSeedAt(h) ==
  /\ r_pc = "seeds"
  /\ LET node == seed_nodes[seed_pos]
         seen1 == seen_ids \cup {node.id}
         docs1 == Append(documents, SeedDocument(node))
     IN IF AlreadySeen(node.id, seen_ids)
        THEN UNCHANGED <<seen_ids, documents, edge_reads>>
        ELSE IF ~ExpansionEnabled(h)
        THEN /\ seen_ids' = seen1
             /\ documents' = docs1
             /\ UNCHANGED edge_reads
        ELSE /\ edge_reads' = edge_reads + 1
             /\ \E ids \in NeighbourIdLists(kg_edges, node.id, rcfg) :
                  \E rows \in NodeRowLists(kg_nodes, FilterUnseen(ids, seen1)) :
                    LET out == AppendExpansions(rows, node.id, seen1, docs1)
                    IN /\ seen_ids' = out[1]
                       /\ documents' = out[2]
  /\ UNCHANGED io_errors
  /\ SeedLoopAdvance

VisitSeed == VisitSeedAt(rcfg.hop_limit)

\* One iteration in which the kg_edges query raises: _get_neighbour_ids logs and
\* returns [], so _fetch_nodes_by_ids returns [] without a query.
VisitSeedEdgeFetchRaisesAt(h) ==
  /\ r_pc = "seeds"
  /\ ~AlreadySeen(seed_nodes[seed_pos].id, seen_ids)
  /\ ExpansionEnabled(h)
  /\ seen_ids' = seen_ids \cup {seed_nodes[seed_pos].id}
  /\ documents' = Append(documents, SeedDocument(seed_nodes[seed_pos]))
  /\ edge_reads' = edge_reads + 1
  /\ io_errors' = Append(io_errors, "kg_edges")
  /\ SeedLoopAdvance

VisitSeedEdgeFetchRaises == VisitSeedEdgeFetchRaisesAt(rcfg.hop_limit)

\* One iteration in which the kg_nodes query raises: _fetch_nodes_by_ids logs and
\* returns [].
VisitSeedNodeFetchRaisesAt(h) ==
  /\ r_pc = "seeds"
  /\ ~AlreadySeen(seed_nodes[seed_pos].id, seen_ids)
  /\ ExpansionEnabled(h)
  /\ \E ids \in NeighbourIdLists(kg_edges, seed_nodes[seed_pos].id, rcfg) :
       FilterUnseen(ids, seen_ids \cup {seed_nodes[seed_pos].id}) # <<>>
  /\ seen_ids' = seen_ids \cup {seed_nodes[seed_pos].id}
  /\ documents' = Append(documents, SeedDocument(seed_nodes[seed_pos]))
  /\ edge_reads' = edge_reads + 1
  /\ io_errors' = Append(io_errors, "kg_nodes")
  /\ SeedLoopAdvance

VisitSeedNodeFetchRaises == VisitSeedNodeFetchRaisesAt(rcfg.hop_limit)

\* ================================================================== prune
\* POST /kg/prune: the router hands the request to KGService.prune, which hands
\* it to the prune_kg RPC.
\* ------------------------------------------------------------ input space
\* The request model's defaults, and a request with small limits.
DefaultPruneRequest ==
  [edge_stale_days |-> 90, node_stale_days |-> 180, min_degree |-> 3,
   keep_edge_evidence |-> 5, keep_node_evidence |-> 10]

PruneRequests ==
  {DefaultPruneRequest,
   [DefaultPruneRequest EXCEPT !.min_degree = 1, !.keep_edge_evidence = 1,
                               !.keep_node_evidence = 2]}

\* Days since a row was last seen: within both windows, past the edge window
\* only, past both.
NodeAges == {10, 100, 200}

EdgeAges == {10, 100}

\* Edges among the three nodes, a self-loop included, active or archived.
PruneEdgeRows ==
  {[tenant |-> Tenant, client |-> Client, src_id |-> k[1], dst_id |-> k[2],
    rel_type |-> "related_to", weight |-> 90000, is_active |-> a] :
     k \in {<<1, 2>>, <<2, 1>>, <<2, 3>>, <<1, 1>>}, a \in BOOLEAN}

RECURSIVE PruneEdgeStoresUpTo(_)
PruneEdgeStoresUpTo(n) ==
  IF n = 0 THEN {{}}
  ELSE LET smaller == PruneEdgeStoresUpTo(n - 1)
       IN smaller \cup
          UNION {{E \cup {r} :
                    r \in {x \in PruneEdgeRows : \A y \in E : EdgeKeyOf(x) # EdgeKeyOf(y)}}
                 : E \in smaller}

PruneEdgeStores == PruneEdgeStoresUpTo(MaxEdges)

\* ------------------------------------------------------------------- RPC
PruneParamsDegreeFromKeep(req) ==
  [p_edge_stale_days |-> req.edge_stale_days, p_node_stale_days |-> req.node_stale_days,
   p_min_degree |-> req.keep_node_evidence, p_keep_edge_evidence |-> req.keep_edge_evidence,
   p_keep_node_evidence |-> req.keep_node_evidence]

PruneParamsSwappedDays(req) ==
  [p_edge_stale_days |-> req.node_stale_days, p_node_stale_days |-> req.edge_stale_days,
   p_min_degree |-> req.min_degree, p_keep_edge_evidence |-> req.keep_edge_evidence,
   p_keep_node_evidence |-> req.keep_node_evidence]

\* The parameters KGService.prune passes to the RPC for the router's request.
PruneParams(req) ==
  [p_edge_stale_days |-> req.edge_stale_days, p_node_stale_days |-> req.node_stale_days,
   p_min_degree |-> req.min_degree, p_keep_edge_evidence |-> req.keep_edge_evidence,
   p_keep_node_evidence |-> req.keep_node_evidence]

\* A row without a recorded age or evidence count has age 0, no evidence.
CountOf(f, k) == IF k \in DOMAIN f THEN f[k] ELSE 0

InScope(r) == r.tenant = Tenant /\ r.client = Client

\* The active edges of the scope that node id n is source or destination of.
ActiveDegree(edges, n) ==
  Cardinality({r \in edges : InScope(r) /\ r.is_active /\ (r.src_id = n \/ r.dst_id = n)})

\* RPC prune_kg: archive the edges last seen more than p_edge_stale_days ago;
\* then archive the nodes last seen more than p_node_stale_days ago whose
\* active-edge degree is below p_min_degree; trim each parent's evidence rows to
\* the keep_* limit.  Nothing but evidence rows is deleted.
prune_kg(nodes, edges, nage, eage, nev, eev, p) ==
  LET stale_e == {r \in edges : /\ InScope(r) /\ r.is_active
                                /\ CountOf(eage, EdgeKeyOf(r)) > p.p_edge_stale_days}
      edges1 == (edges \ stale_e) \cup {[r EXCEPT !.is_active = FALSE] : r \in stale_e}
      stale_n == {n \in nodes : /\ InScope(n) /\ n.status # "archived"
                                /\ CountOf(nage, n.id) > p.p_node_stale_days
                                /\ ActiveDegree(edges1, n.id) < p.p_min_degree}
      nodes1 == (nodes \ stale_n) \cup {[n EXCEPT !.status = "archived"] : n \in stale_n}
      nev1 == [k \in DOMAIN nev |-> Min(nev[k], p.p_keep_node_evidence)]
      eev1 == [k \in DOMAIN eev |-> Min(eev[k], p.p_keep_edge_evidence)]
      Deleted(before, after, S) ==
        Cardinality(UNION {{<<k, i>> : i \in (after[k] + 1)..before[k]} : k \in S})
  IN [nodes |-> nodes1, edges |-> edges1, node_evidence |-> nev1, edge_evidence |-> eev1,
      data |-> [edges_archived |-> Cardinality(stale_e),
                nodes_archived |-> Cardinality(stale_n),
                edge_evidence_deleted |-> Deleted(eev, eev1, DOMAIN eev),
                node_evidence_deleted |-> Deleted(nev, nev1, DOMAIN nev)]]

\* PruneResponse(edges_archived=result.get("edges_archived", 0), ...)
PruneResponse(data) ==
  [edges_archived |-> data.edges_archived, nodes_archived |-> data.nodes_archived,
   edge_evidence_deleted |-> data.edge_evidence_deleted,
   node_evidence_deleted |-> data.node_evidence_deleted]

\* -------------------------------------------------------------- handler
\* What the prune call leaves of the build's variables.
PruneFrame ==
  /\ UNCHANGED <<chunk_table, cfg, pc, all_chunks, valid_chunks, skipped,
                 chunk_id_to_node_id, nodes_upserted, edges_upserted, node_calls, plan,
                 edge_calls, result, prev_result, nodes_before, edges_before, runs, raised>>
  /\ UNCHANGED <<rvars, fvars, cvars, avars, ivars, dvars, node_age, edge_age>>

\* The prune call with request req, on rows of the ages nage and eage.
PruneWith(req, nage, eage) ==
  LET out == prune_kg(kg_nodes, kg_edges, nage, eage, node_evidence, edge_evidence,
                      PruneParams(req))
  IN /\ kg_nodes' = out.nodes
     /\ kg_edges' = out.edges
     /\ node_evidence' = out.node_evidence
     /\ edge_evidence' = out.edge_evidence
     /\ prune_req' = req
     /\ prune_result' = <<PruneResponse(out.data)>>
     /\ pre_prune' = <<[nodes |-> kg_nodes, edges |-> kg_edges,
                        node_evidence |-> node_evidence,
                        edge_evidence |-> edge_evidence]>>
     /\ p_pc' = "done"
     /\ p_at_run' = runs
     /\ PruneFrame

\* The RPC raises: nothing catches it, the store is as it was.
PruneFails(req) ==
  /\ prune_req' = req
  /\ prune_result' = <<>>
  /\ p_pc' = "raised"
  /\ p_at_run' = runs
  /\ UNCHANGED <<kg_nodes, kg_edges, node_evidence, edge_evidence, pre_prune>>
  /\ PruneFrame

\* A prune call on a graph whose rows have the recorded ages.
Prune == PruneWith(prune_req, node_age, edge_age)

PruneRaises ==
  /\ p_pc # "raised"
  /\ PruneFails(prune_req)

\* Days that pass between a completed build and a prune: a build stamps every
\* row it upserts, so every row of the graph is this old.
ElapsedDays == {100, 200}

RowsAged(d) ==
  [nodes |-> [id \in {n.id : n \in kg_nodes} |-> d],
   edges |-> [k \in {EdgeKeyOf(r) : r \in kg_edges} |-> d]]

\* A prune call some days after a build call has returned.
PruneAfterBuild ==
  /\ pc = "done"
  /\ \E d \in ElapsedDays : \E req \in PruneRequests :
       PruneWith(req, RowsAged(d).nodes, RowsAged(d).edges)

PruneAfterBuildRaises ==
  /\ pc = "done"
  /\ p_pc # "raised"
  /\ \E req \in PruneRequests : PruneFails(req)

\* ================================================================ callers
\* The layers that call the retriever and gate on the first document's score:
\* SearchService.ask, run_retrieval_agent and the RAG workflow.
Callers == {"ask", "agent", "workflow"}

\* Queries whose best match is clearly below the gate, just below it before
\* rounding, and well above it.
CallerQuerySims == {<<55000, 50000, 40000>>, <<59996, 50000, 40000>>, <<91234, 72000, 65000>>}

\* Graphs with no edge or one active edge of weight 0.90.
CallerEdgeStores ==
  {E \in EdgeStoresUpTo(1) : \A r \in E : r.is_active /\ r.weight = 90000}

\* retrieve: top_k = 5 if attempt == 1 else 10; hop_limit = 1 if attempt == 1 else 2
WorkflowRetrieverConfig(n) ==
  [top_k |-> IF n = 1 THEN 5 ELSE 10, hop_limit |-> IF n = 1 THEN 1 ELSE 2,
   max_neighbours |-> 3, min_edge_weight |-> 75000]

\* The retriever fields each caller may ask for.
CallerConfigs(c) ==
  IF c = "workflow" THEN {WorkflowRetrieverConfig(1)}
  ELSE {[top_k |-> 5, hop_limit |-> 1, max_neighbours |-> 3, min_edge_weight |-> 75000],
        [top_k |-> 2, hop_limit |-> 0, max_neighbours |-> 3, min_edge_weight |-> 75000]}

TopSimilarityOfLast(docs, default) ==
  IF docs[Len(docs)].has_score THEN docs[Len(docs)].similarity_score ELSE default

\* docs[0].metadata.get("similarity_score", default)
TopSimilarity(docs, default) ==
  IF docs[1].has_score THEN docs[1].similarity_score ELSE default

\* top_score < 0.60
BelowGate(score) == score < 60000

\* _format_sources: one serializable dict per Document, in order.
_format_sources(docs) ==
  [k \in 1..Len(docs) |->
     [node_id |-> docs[k].node_id, has_score |-> docs[k].has_score,
      similarity_score |-> docs[k].similarity_score, source |-> docs[k].source]]

AskLowConfidenceDropsDocs(docs) == [answer |-> "low_confidence", sources |-> <<>>]

\* ask: return (the low-confidence message, docs)
AskLowConfidence(docs) == [answer |-> "low_confidence", sources |-> docs]

\* What a step of a caller leaves of the retrieve call's variables.
CallerFrame ==
  /\ UNCHANGED <<query_sim, seed_nodes, seed_pos, seen_ids, documents, edge_reads, io_errors>>
  /\ UNCHANGED <<bvars, fvars, cvars, pvars, ivars, dvars>>

\* SearchService.ask after graph_search has returned: the empty answer, the
\* low-confidence answer with the documents, or the LLM's answer; a failed LLM
\* call raises RuntimeError.
AskResponds ==
  /\ caller = "ask"
  /\ a_pc = "retrieving"
  /\ r_pc = "done"
  /\ IF documents = <<>>
     THEN /\ response' = <<[answer |-> "none_found", sources |-> <<>>]>>
          /\ a_pc' = "responded"
     ELSE IF BelowGate(TopSimilarity(documents, SCALE))
     THEN /\ response' = <<AskLowConfidence(documents)>>
          /\ a_pc' = "responded"
     ELSE \E llm_ok \in BOOLEAN :
            IF llm_ok
            THEN /\ response' = <<[answer |-> "generated", sources |-> documents]>>
                 /\ a_pc' = "responded"
            ELSE /\ response' = <<>>
                 /\ a_pc' = "raised"
  /\ UNCHANGED <<caller, attempt, r_pc, rcfg>>
  /\ CallerFrame

\* run_retrieval_agent after graph_search has returned; a failed LLM call is
\* answered with "Generation failed" and the sources.
AgentResponds ==
  /\ caller = "agent"
  /\ a_pc = "retrieving"
  /\ r_pc = "done"
  /\ IF documents = <<>>
     THEN response' = <<[answer |-> "none_found", sources |-> <<>>, confidence |-> 0]>>
     ELSE LET top_score == TopSimilarity(documents, 0)
          IN IF BelowGate(top_score)
             THEN response' = <<[answer |-> "low_confidence",
                                 sources |-> _format_sources(documents),
                                 confidence |-> top_score]>>
             ELSE \E llm_ok \in BOOLEAN :
                    response' = <<[answer |-> IF llm_ok THEN "generated"
                                              ELSE "generation_failed",
                                   sources |-> _format_sources(documents),
                                   confidence |-> top_score]>>
  /\ a_pc' = "responded"
  /\ UNCHANGED <<caller, attempt, r_pc, rcfg>>
  /\ CallerFrame

RetryAttemptNotCounted(n) == n

\* retrieve, entered again: attempt = state.get("attempt", 0) + 1
RetryAttempt(n) == n + 1

\* The workflow from the return of retriever.invoke in the retrieve node to the
\* next retriever call or END: grade_documents, route_on_confidence, then
\* retrieve again, no_results, or build_context and generate.
WorkflowRoutes ==
  /\ caller = "workflow"
  /\ a_pc = "retrieving"
  /\ r_pc = "done"
  /\ LET top_sim == IF documents = <<>> THEN 0 ELSE TopSimilarity(documents, 0)
         confidence == top_sim
     IN IF BelowGate(confidence) /\ attempt < 2
        THEN /\ attempt' = RetryAttempt(attempt)
             /\ rcfg' = WorkflowRetrieverConfig(RetryAttempt(attempt))
             /\ r_pc' = "idle"
             /\ UNCHANGED <<a_pc, response>>
        ELSE IF BelowGate(confidence)
        THEN /\ response' = <<[answer |-> "low_confidence", documents |-> documents,
                               confidence |-> confidence, attempt |-> attempt,
                               route |-> "no_results"]>>
             /\ a_pc' = "responded"
             /\ UNCHANGED <<attempt, r_pc, rcfg>>
        ELSE /\ \E llm_ok \in BOOLEAN :
                  response' = <<[answer |-> IF llm_ok THEN "generated"
                                            ELSE "generation_failed",
                                 documents |-> documents, confidence |-> confidence,
                                 attempt |-> attempt, route |-> "build_context"]>>
             /\ a_pc' = "responded"
             /\ UNCHANGED <<attempt, r_pc, rcfg>>
  /\ UNCHANGED caller
  /\ CallerFrame

\* retriever.invoke raised (the query could not be embedded): no caller catches it.
CallerRaises ==
  /\ a_pc = "retrieving"
  /\ r_pc = "raised"
  /\ a_pc' = "raised"
  /\ UNCHANGED <<caller, attempt, response, r_pc, rcfg>>
  /\ CallerFrame

\* =========================================================== ingest jobs
\* POST /ingest/file and POST /ingest/web hand the ingest to a background task
\* and answer 202 with a fresh job_id; GET /ingest/status/{job_id} reads _jobs.
\* job_id = str(uuid.uuid4()): the fresh ids, in the order they are drawn.
JobIds == {1, 2, 3}

\* What a step of the job endpoints leaves of the other variables.
JobFrame == UNCHANGED <<bvars, rvars, fvars, cvars, pvars, avars, dvars, batch_entry, b_pc>>

\* ingest_file / ingest_web: background_tasks.add_task(...) and the 202 response
\* that carries job_id.  The task runs after the response has been sent.
IngestAccepted(kind) ==
  /\ \E j \in JobIds :
       /\ job_task[j].at = "none"
       /\ \A k \in JobIds : k < j => job_task[k].at # "none"
       /\ job_task' = [job_task EXCEPT ![j] = [kind |-> kind, at |-> "queued"]]
  /\ UNCHANGED <<jobs, poll>>
  /\ JobFrame

ingest_file == IngestAccepted("file")

ingest_web == IngestAccepted("web")

\* _jobs[job_id] = {"status": "running"}
RunIngestEnters(js, j) ==
  [k \in DOMAIN js \cup {j} |-> IF k = j THEN [status |-> "running"] ELSE js[k]]

\* _run_file_ingest / _run_web_ingest: the first statement of the task.
RunIngestStarts ==
  /\ \E j \in JobIds :
       /\ job_task[j].at = "queued"
       /\ jobs' = RunIngestEnters(jobs, j)
       /\ job_task' = [job_task EXCEPT ![j].at = "running"]
  /\ UNCHANGED poll
  /\ JobFrame

\* _run_file_ingest / _run_web_ingest: svc.ingest returned or raised.
RunIngestEnds ==
  /\ \E j \in JobIds :
       /\ job_task[j].at = "running"
       /\ \E outcome \in {"complete", "failed"} :
            jobs' = [jobs EXCEPT ![j] = [status |-> outcome]]
       /\ job_task' = [job_task EXCEPT ![j].at = "ended"]
  /\ UNCHANGED poll
  /\ JobFrame

\* GET /ingest/status/{job_id} for a job_id that a 202 response carried.
ingest_status ==
  /\ \E j \in JobIds :
       /\ job_task[j].at # "none"
       /\ poll' = IF j \in DOMAIN jobs
                  THEN <<[job_id |-> j, code |-> 200, status |-> jobs[j].status]>>
                  ELSE <<[job_id |-> j, code |-> 404, status |-> ""]>>
  /\ UNCHANGED <<jobs, job_task>>
  /\ JobFrame

\* ======================================================= document content
\* _node_to_document's page_content.  An Optional[str] is <<>> for None and
\* <<s>> for the string s.
\* Node rows: with or without properties.chunk_id, and a description and a name
\* that are None, empty or a text.
ContentNodes ==
  [has_chunk_id : BOOLEAN,
   description : {<<>>, <<"">>, <<"preview">>},
   name : {<<>>, <<"">>, <<"Chunk 0">>}]

\* What the chunks query may do: raise, answer no row, or answer a row whose
\* content is NULL, empty or the chunk's text.
ChunkQueryOutcomes ==
  {[raises |-> TRUE, data |-> <<>>], [raises |-> FALSE, data |-> <<>>]}
  \cup {[raises |-> FALSE, data |-> <<[content |-> c]>>] :
          c \in {<<>>, <<"">>, <<"full text">>}}

\* bool(v) of an Optional[str]
Truthy(v) == v # <<>> /\ v[1] # ""

OrElseNotNone(a, b) == IF a # <<>> THEN a ELSE b

\* a or b
OrElse(a, b) == IF Truthy(a) THEN a ELSE b

\* _get_chunk_content: the row's content, None when the query raised (logged)
\* or answered no row.
_get_chunk_content(outcome) ==
  IF outcome.raises THEN <<>>
  ELSE IF outcome.data # <<>> THEN outcome.data[1].content
  ELSE <<>>

\* (self._get_chunk_content(chunk_id) if chunk_id else None)
\*   or node.get("description") or node.get("name") or ""
PageContent(node, outcome) ==
  OrElse(OrElse(OrElse(IF node.has_chunk_id THEN _get_chunk_content(outcome) ELSE <<>>,
                       node.description),
                node.name),
         <<"">>)

\* _node_to_document(node): the Document it returns.
_node_to_document ==
  /\ d_doc = <<>>
  /\ d_doc' = <<[page_content |-> PageContent(d_node, d_chunk)[1],
                 chunk_queried |-> d_node.has_chunk_id]>>
  /\ UNCHANGED <<d_node, d_chunk>>
  /\ UNCHANGED <<bvars, rvars, fvars, cvars, pvars, avars, ivars>>

\* ========================================================= ingest batches
\* _run_batch_file_ingest / _run_batch_web_ingest over one _batches entry, and
\* _finalise_batch.
\* The entry the batch endpoints store for n items before they queue the task.
NewBatch(n) ==
  [status |-> "running", total |-> n, completed |-> 0, failed |-> 0, running |-> n,
   items |-> [k \in 1..n |-> "pending"]]

\* sum(1 for it in items if it["status"] == value)
CountStatus(items, value) == Cardinality({k \in 1..Len(items) : items[k] = value})

\* _finalise_batch: the entry after it.
_finalise_batch(entry) ==
  LET failed == CountStatus(entry.items, "failed")
      completed == CountStatus(entry.items, "complete")
  IN [entry EXCEPT !.status = IF failed = Len(entry.items) THEN "failed"
                              ELSE IF failed > 0 THEN "partial_failure"
                              ELSE "complete",
                   !.completed = completed,
                   !.failed = failed,
                   !.running = 0]

BatchFrame == UNCHANGED <<bvars, rvars, fvars, cvars, pvars, avars, dvars, jobs, job_task, poll>>

\* The first statement of an iteration of "for i, item in enumerate(...)":
\* _batches[batch_id]["items"][i]["status"] = "running".
BatchItemStarts ==
  /\ b_pc = "items"
  /\ \E i \in 1..Len(batch_entry[1].items) :
       /\ batch_entry[1].items[i] = "pending"
       /\ \A k \in 1..(i - 1) : batch_entry[1].items[k] \in {"complete", "failed"}
       /\ batch_entry' = <<[batch_entry[1] EXCEPT !.items[i] = "running"]>>
  /\ UNCHANGED b_pc
  /\ BatchFrame

\* The rest of the iteration: svc.ingest returned, or raised and was caught.
BatchItemEnds ==
  /\ b_pc = "items"
  /\ \E i \in 1..Len(batch_entry[1].items) :
       /\ batch_entry[1].items[i] = "running"
       /\ \E outcome \in {"complete", "failed"} :
            batch_entry' = <<[batch_entry[1] EXCEPT !.items[i] = outcome]>>
  /\ UNCHANGED b_pc
  /\ BatchFrame

\* After the last iteration the task calls _finalise_batch(batch_id).
FinaliseBatch ==
  /\ b_pc = "items"
  /\ \A k \in 1..Len(batch_entry[1].items) : batch_entry[1].items[k] \in {"complete", "failed"}
  /\ batch_entry' = <<_finalise_batch(batch_entry[1])>>
  /\ b_pc' = "finalised"
  /\ BatchFrame

DefaultRetrieverConfig ==
  [top_k |-> 5, hop_limit |-> 1, max_neighbours |-> 3, min_edge_weight |-> 75000]

BuildIdle ==
  /\ pc = "idle"
  /\ all_chunks = <<>>
  /\ valid_chunks = <<>>
  /\ skipped = 0
  /\ chunk_id_to_node_id = <<>>
  /\ nodes_upserted = 0
  /\ edges_upserted = 0
  /\ node_calls = <<>>
  /\ plan = <<>>
  /\ edge_calls = <<>>
  /\ result = <<>>
  /\ prev_result = <<>>
  /\ nodes_before = {}
  /\ edges_before = {}
  /\ runs = 0
  /\ raised = ""

FetchIdle ==
  /\ f_pc = "idle"
  /\ f_chunks = <<>>
  /\ f_offset = 0
  /\ f_pages = 0
  /\ f_stop = ""
  /\ f_changes = 0

ConcurrentIdle == builds = [p \in Procs |-> NotStarted]

PruneIdle ==
  /\ node_age = <<>>
  /\ edge_age = <<>>
  /\ node_evidence = <<>>
  /\ edge_evidence = <<>>
  /\ prune_req = DefaultPruneRequest
  /\ prune_result = <<>>
  /\ pre_prune = <<>>
  /\ p_pc = "idle"
  /\ p_at_run = 0

CallersIdle ==
  /\ caller = "ask"
  /\ attempt = 1
  /\ a_pc = "idle"
  /\ response = <<>>

IngestIdle ==
  /\ jobs = <<>>
  /\ job_task = [j \in JobIds |-> [kind |-> "", at |-> "none"]]
  /\ poll = <<>>
  /\ batch_entry = <<>>
  /\ b_pc = "idle"

ContentIdle ==
  /\ d_node = <<>>
  /\ d_chunk = <<>>
  /\ d_doc = <<>>

OthersIdle ==
  /\ FetchIdle
  /\ ConcurrentIdle
  /\ PruneIdle
  /\ CallersIdle
  /\ IngestIdle
  /\ ContentIdle

RetrieveIdle ==
  /\ r_pc = "idle"
  /\ seed_nodes = <<>>
  /\ seed_pos = 1
  /\ seen_ids = {}
  /\ documents = <<>>
  /\ edge_reads = 0
  /\ io_errors = <<>>

\* A build service over an empty graph and the chunks of one scope.
Init ==
  /\ chunk_table \in ChunkTables
  /\ cfg \in Configs
  /\ kg_nodes = {}
  /\ kg_edges = {}
  /\ BuildIdle
  /\ query_sim = <<>>
  /\ rcfg = DefaultRetrieverConfig
  /\ RetrieveIdle
  /\ OthersIdle

\* A retriever over a graph that builds have written.
InitRetrieve ==
  /\ chunk_table = <<>>
  /\ cfg = DefaultBuildConfig
  /\ kg_nodes \in NodeStores
  /\ kg_edges \in EdgeStores
  /\ BuildIdle
  /\ query_sim \in QuerySims
  /\ rcfg \in RetrieverConfigs
  /\ RetrieveIdle
  /\ OthersIdle

Next ==
  \/ BuildStart
  \/ UpsertNode
  \/ UpsertNodeRaises
  \/ UpsertEdge
  \/ UpsertEdgeRaises

Spec == Init /\ [][Next]_vars

NextRetrieve ==
  \/ EmbedQueryRaises
  \/ RetrieveStart
  \/ VectorSearchRaises
  \/ VisitSeed
  \/ VisitSeedEdgeFetchRaises
  \/ VisitSeedNodeFetchRaises

SpecRetrieve == InitRetrieve /\ [][NextRetrieve]_vars

\* A fetch that has entered its loop, over the chunks of one scope.
InitFetch ==
  /\ chunk_table \in FetchTables
  /\ cfg \in FetchConfigs
  /\ kg_nodes = {}
  /\ kg_edges = {}
  /\ BuildIdle
  /\ query_sim = <<>>
  /\ rcfg = DefaultRetrieverConfig
  /\ RetrieveIdle
  /\ f_pc = "paging"
  /\ f_chunks = <<>>
  /\ f_offset = 0
  /\ f_pages = 0
  /\ f_stop = ""
  /\ f_changes = 0
  /\ ConcurrentIdle
  /\ PruneIdle
  /\ CallersIdle
  /\ IngestIdle
  /\ ContentIdle

NextFetch ==
  \/ FetchPage
  \/ FetchPageRaises
  \/ ChunkInserted
  \/ DocumentDeleted

\* The loop is sequential code: an iteration that can run does run.
SpecFetch == InitFetch /\ [][NextFetch]_vars /\ WF_vars(FetchPage \/ FetchPageRaises)

\* ================================================================== claims
\* Vocabulary of the build claims, stated on the fetched chunks themselves.
Returned == result # <<>>

FullBuildReturned == Returned /\ result[1].note = ""

ValidPositions == 1..Len(valid_chunks)

\* similarity(i, j) of the valid chunks at positions i and j
Similarity(i, j) ==
  _cosine_sim_matrix([k \in ValidPositions |-> valid_chunks[k].embedding.vec])[i][j]

\* the qualifying neighbours of i: j # i with similarity >= similarity_threshold
Qualifying(i) ==
  {j \in ValidPositions \ {i} : Similarity(i, j) >= cfg.similarity_threshold}

\* the destinations of the upsert_edge calls the current build made for source i
Kept(i) == {edge_calls[k].j : k \in {m \in 1..Len(edge_calls) : edge_calls[m].i = i}}

NodeIdOfChunk(c) == NodeIdOf(kg_nodes, Tenant, Client, ChunkNodeKey(c.id))

\* C1: a second build in succession over the unchanged chunk set returns the same
\* nodes_upserted and edges_upserted as the first and adds no node and no edge:
\* the node and edge natural-key sets of the store are, throughout and after the
\* second run, those before it, and no natural key is stored twice.
C1_RebuildIdempotent ==
  /\ Cardinality(NodeKeys(kg_nodes)) = Cardinality(kg_nodes)
  /\ Cardinality(EdgeKeys(kg_edges)) = Cardinality(kg_edges)
  /\ runs >= 2 =>
       /\ NodeKeys(kg_nodes) = NodeKeys(nodes_before)
       /\ EdgeKeys(kg_edges) = EdgeKeys(edges_before)
       /\ Returned /\ prev_result # <<>> =>
            /\ result[1].nodes_upserted = prev_result[1].nodes_upserted
            /\ result[1].edges_upserted = prev_result[1].edges_upserted

C1_Witness ==
  /\ runs = 2
  /\ FullBuildReturned
  /\ result[1].nodes_upserted >= 2
  /\ result[1].edges_upserted >= 2
  /\ kg_edges # {}

\* C2: no upsert_edge call is made for a pair below similarity_threshold, every
\* call and the row it leaves carry weight = similarity(i, j), and once the build
\* has returned every ordered pair i # j at or above the threshold with fewer than
\* max_edges_per_chunk other qualifying neighbours of i at least as similar has
\* its edge.
C2_ThresholdCorrect ==
  /\ \A k \in 1..Len(edge_calls) :
       LET e == edge_calls[k]
       IN /\ Similarity(e.i, e.j) >= cfg.similarity_threshold
          /\ e.weight = Similarity(e.i, e.j)
          /\ \E r \in kg_edges :
               /\ EdgeKeyOf(r) = <<Tenant, Client, NodeIdOfChunk(valid_chunks[e.i]),
                                   NodeIdOfChunk(valid_chunks[e.j]), cfg.rel_type>>
               /\ r.weight = Similarity(e.i, e.j)
  /\ FullBuildReturned =>
       \A i \in ValidPositions : \A j \in Qualifying(i) :
         Cardinality({k \in Qualifying(i) \ {j} : Similarity(i, k) >= Similarity(i, j)})
             < cfg.max_edges_per_chunk
           => j \in Kept(i)

C2_Witness ==
  /\ FullBuildReturned
  /\ \E i \in ValidPositions : \E j \in ValidPositions \ {i} :
       /\ Similarity(i, j) = cfg.similarity_threshold
       /\ j \in Kept(i)
  /\ \E i \in ValidPositions : \E j \in ValidPositions \ {i} :
       /\ Similarity(i, j) < cfg.similarity_threshold
       /\ j \notin Kept(i)

\* C3: after a build, a node with more than max_edges_per_chunk qualifying
\* neighbours has exactly max_edges_per_chunk outgoing edges, drawn to qualifying
\* neighbours, and every kept neighbour is at least as similar as every
\* qualifying neighbour that was dropped.
C3_FanOutCap ==
  FullBuildReturned =>
    \A i \in ValidPositions :
      Cardinality(Qualifying(i)) > cfg.max_edges_per_chunk =>
        /\ Cardinality(Kept(i)) = cfg.max_edges_per_chunk
        /\ Cardinality({r \in kg_edges : r.src_id = NodeIdOfChunk(valid_chunks[i])})
             = cfg.max_edges_per_chunk
        /\ Kept(i) \subseteq Qualifying(i)
        /\ \A j \in Kept(i) : \A d \in Qualifying(i) \ Kept(i) :
             Similarity(i, j) >= Similarity(i, d)

C3_Witness ==
  /\ FullBuildReturned
  /\ \E i \in ValidPositions :
       /\ Cardinality(Qualifying(i)) > cfg.max_edges_per_chunk
       /\ \E j \in Kept(i) : \E d \in Qualifying(i) \ Kept(i) :
            Similarity(i, j) > Similarity(i, d)

HasWarnings(res) == "warnings" \in DOMAIN res /\ res.warnings # <<>>

\* C8: an individual node or edge upsert failure does not abort the build: the
\* call does not end with the exception, and when it returns its result carries
\* a non-empty warnings list.
C8_UpsertFailureCollected ==
  /\ pc # "failed"
  /\ raised # "" /\ Returned => HasWarnings(result[1])

\* the validity of an embedding, as the claim states it
C10_IsValid(c) == c.embedding.is_list /\ c.embedding.dim = 1536

C10_ValidIds == {all_chunks[k].id : k \in {m \in 1..Len(all_chunks) : C10_IsValid(all_chunks[m])}}

\* C10: chunks with a missing or not 1536-dimensional embedding are skipped and
\* counted: every returned result has chunks_fetched = chunks_valid +
\* chunks_skipped with chunks_fetched the number of fetched chunks and
\* chunks_valid the number of valid ones, nodes_upserted = chunks_valid, and every
\* node upsert and every edge endpoint is the node of a valid chunk.
C10_InvalidSkipped ==
  /\ \A k \in 1..Len(node_calls) : \E id \in C10_ValidIds : node_calls[k] = ChunkNodeKey(id)
  /\ \A k \in 1..Len(edge_calls) :
       \E a \in C10_ValidIds : \E b \in C10_ValidIds :
         /\ edge_calls[k].src_id = NodeIdOf(kg_nodes, Tenant, Client, ChunkNodeKey(a))
         /\ edge_calls[k].dst_id = NodeIdOf(kg_nodes, Tenant, Client, ChunkNodeKey(b))
  /\ Returned =>
       /\ result[1].chunks_fetched = Len(all_chunks)
       /\ result[1].chunks_valid = Cardinality(C10_ValidIds)
       /\ result[1].chunks_fetched = result[1].chunks_valid + result[1].chunks_skipped
       /\ result[1].nodes_upserted = result[1].chunks_valid
       /\ Len(node_calls) = result[1].chunks_valid

C10_Witness ==
  /\ FullBuildReturned
  /\ result[1].chunks_skipped >= 1
  /\ result[1].chunks_valid >= 2
  /\ result[1].edges_upserted >= 1
  /\ \E k \in 1..Len(all_chunks) : all_chunks[k].embedding.is_list /\ ~C10_IsValid(all_chunks[k])

\* Vocabulary of the retrieval claims.
RetrieveReturned == r_pc = "done"

DocPositions == 1..Len(documents)

\* the weight of the edge the expansion of `src` followed to `dst`
FollowedWeight(src, dst) ==
  (CHOOSE r \in kg_edges : r.src_id = src /\ r.dst_id = dst /\ r.is_active
                           /\ r.weight >= rcfg.min_edge_weight).weight

\* C4: the sequence retrieve builds and returns holds no node id twice.
C4_NoDuplicateNodeIds ==
  \A a \in DocPositions : \A b \in DocPositions :
    a # b => documents[a].node_id # documents[b].node_id

C4_Witness ==
  /\ RetrieveReturned
  /\ \E k \in 1..Len(seed_nodes) : \E a \in DocPositions :
       /\ documents[a].node_id = seed_nodes[k].id
       /\ documents[a].source = "graph_expansion"

\* C5: with hop_limit >= 1, every item with provenance vector comes before
\* every item with provenance graph_expansion.
C5_SeedsPrecedeExpansions ==
  rcfg.hop_limit >= 1 =>
    \A a \in DocPositions : \A b \in DocPositions :
      documents[a].source = "graph_expansion" /\ documents[b].source = "vector" => b < a

\* C6: the graph_expansion items one seed contributed appear in descending order
\* of the weight of the edge from that seed.
C6_ExpansionsByWeight ==
  \A a \in DocPositions : \A b \in DocPositions :
    /\ a < b
    /\ documents[a].source = "graph_expansion"
    /\ documents[b].source = "graph_expansion"
    /\ documents[a].via = documents[b].via
    => FollowedWeight(documents[a].via, documents[a].node_id)
         >= FollowedWeight(documents[b].via, documents[b].node_id)

\* C7: with hop_limit = 0 retrieve never queries kg_edges, emits no
\* graph_expansion item, and returns the rows of the vector search, one item
\* each, in the search's order, tagged vector with the row's rounded similarity.
C7_HopZeroIsSeedsOnly ==
  rcfg.hop_limit = 0 =>
    /\ edge_reads = 0
    /\ \A a \in DocPositions :
         /\ documents[a].source = "vector"
         /\ documents[a].node_id = seed_nodes[a].id
         /\ documents[a].has_score
         /\ documents[a].similarity_score = Round4(seed_nodes[a].similarity)
    /\ RetrieveReturned => Len(documents) = Len(seed_nodes)

C7_Witness ==
  /\ rcfg.hop_limit = 0
  /\ RetrieveReturned
  /\ Len(documents) >= 2
  /\ \E r \in kg_edges : \E n \in kg_nodes :
       /\ r.src_id = documents[1].node_id
       /\ r.is_active
       /\ r.weight >= rcfg.min_edge_weight
       /\ n.id = r.dst_id
       /\ n.status = "active"
       /\ \A a \in DocPositions : documents[a].node_id # n.id

\* C9: a store query that raises during retrieve makes the call fail: retrieve
\* never returns a normal result after an upstream I/O error.
C9_IOErrorSurfaced ==
  RetrieveReturned => io_errors = <<>>

\* Two build calls about to run over the same chunks, config and empty graph.
InitConcurrent ==
  /\ chunk_table \in ConcurrentTables
  /\ cfg \in ConcurrentConfigs
  /\ kg_nodes = {}
  /\ kg_edges = {}
  /\ BuildIdle
  /\ query_sim = <<>>
  /\ rcfg = DefaultRetrieverConfig
  /\ RetrieveIdle
  /\ OthersIdle

NextConcurrent ==
  \/ ConcurrentBuildStart
  \/ ConcurrentUpsertNode
  \/ ConcurrentUpsertEdge
  \/ ConcurrentUpsertRaises

SpecConcurrent == InitConcurrent /\ [][NextConcurrent]_vars

\* Build calls of which any may be interrupted by an exception after any prefix
\* of its upserts, and retried.
InitRetry ==
  /\ chunk_table \in ConcurrentTables
  /\ cfg \in ConcurrentConfigs
  /\ kg_nodes = {}
  /\ kg_edges = {}
  /\ BuildIdle
  /\ query_sim = <<>>
  /\ rcfg = DefaultRetrieverConfig
  /\ RetrieveIdle
  /\ OthersIdle

NextRetry ==
  \/ BuildStart
  \/ RetryAfterFailure
  \/ UpsertNode
  \/ UpsertNodeRaises
  \/ UpsertEdge
  \/ UpsertEdgeRaises

SpecRetry == InitRetry /\ [][NextRetry]_vars

\* A prune call about to run on a graph that builds have written, some of it
\* archived already, with evidence rows on every node and edge.
InitPrune ==
  /\ chunk_table = <<>>
  /\ cfg = DefaultBuildConfig
  /\ kg_nodes \in NodeStores
  /\ kg_edges \in PruneEdgeStores
  /\ BuildIdle
  /\ query_sim = <<>>
  /\ rcfg = DefaultRetrieverConfig
  /\ RetrieveIdle
  /\ FetchIdle
  /\ ConcurrentIdle
  /\ node_age \in [NodeIds -> NodeAges]
  /\ edge_age \in [EdgeKeys(kg_edges) -> EdgeAges]
  /\ node_evidence = [n \in NodeIds |-> 4 * n]
  /\ edge_evidence = [k \in EdgeKeys(kg_edges) |-> 3 * k[3]]
  /\ prune_req \in PruneRequests
  /\ prune_result = <<>>
  /\ pre_prune = <<>>
  /\ p_pc = "idle"
  /\ p_at_run = 0
  /\ CallersIdle
  /\ IngestIdle
  /\ ContentIdle

NextPrune ==
  \/ Prune
  \/ PruneRaises

SpecPrune == InitPrune /\ [][NextPrune]_vars

\* Builds of one chunk set with prune calls between them.
NextRebuild ==
  \/ BuildStart
  \/ UpsertNode
  \/ UpsertNodeRaises
  \/ UpsertEdge
  \/ UpsertEdgeRaises
  \/ PruneAfterBuild
  \/ PruneAfterBuildRaises

SpecRebuild == InitRetry /\ [][NextRebuild]_vars

\* Builds of one scope whose request config and chunk embeddings change from one
\* build to the next.
NextReconfigure ==
  \/ BuildStart
  \/ RebuildKG
  \/ ChunkReembedded
  \/ UpsertNode
  \/ UpsertNodeRaises
  \/ UpsertEdge
  \/ UpsertEdgeRaises

SpecReconfigure == InitRetry /\ [][NextReconfigure]_vars

\* A build whose fetch runs page by page over a chunks table that other sessions
\* write to.
NextPaged ==
  \/ FetchPage
  \/ FetchPageRaises
  \/ ChunkInserted
  \/ DocumentDeleted
  \/ BuildAfterFetch
  \/ UpsertNode
  \/ UpsertNodeRaises
  \/ UpsertEdge
  \/ UpsertEdgeRaises

SpecPaged == InitFetch /\ [][NextPaged]_vars

\* A retriever over a graph whose store also holds edges of other scopes.
InitShared ==
  /\ chunk_table = <<>>
  /\ cfg = DefaultBuildConfig
  /\ kg_nodes \in NodeStores
  /\ kg_edges \in SharedEdgeStores
  /\ BuildIdle
  /\ query_sim \in QuerySims
  /\ rcfg \in RetrieverConfigs
  /\ RetrieveIdle
  /\ OthersIdle

SpecShared == InitShared /\ [][NextRetrieve]_vars

\* _node_to_document about to run on a node row.
InitContent ==
  /\ chunk_table = <<>>
  /\ cfg = DefaultBuildConfig
  /\ kg_nodes = {}
  /\ kg_edges = {}
  /\ BuildIdle
  /\ query_sim = <<>>
  /\ rcfg = DefaultRetrieverConfig
  /\ RetrieveIdle
  /\ FetchIdle
  /\ ConcurrentIdle
  /\ PruneIdle
  /\ CallersIdle
  /\ IngestIdle
  /\ d_node \in ContentNodes
  /\ d_chunk \in ChunkQueryOutcomes
  /\ d_doc = <<>>

NextContent == _node_to_document

SpecContent == InitContent /\ [][NextContent]_vars

\* A batch task about to run over its _batches entry, of any number of items.
InitBatch ==
  /\ chunk_table = <<>>
  /\ cfg = DefaultBuildConfig
  /\ kg_nodes = {}
  /\ kg_edges = {}
  /\ BuildIdle
  /\ query_sim = <<>>
  /\ rcfg = DefaultRetrieverConfig
  /\ RetrieveIdle
  /\ FetchIdle
  /\ ConcurrentIdle
  /\ PruneIdle
  /\ CallersIdle
  /\ ContentIdle
  /\ jobs = <<>>
  /\ job_task = [j \in JobIds |-> [kind |-> "", at |-> "none"]]
  /\ poll = <<>>
  /\ batch_entry \in {<<NewBatch(n)>> : n \in 0..MaxItems}
  /\ b_pc = "items"

NextBatch ==
  \/ BatchItemStarts
  \/ BatchItemEnds
  \/ FinaliseBatch

SpecBatch == InitBatch /\ [][NextBatch]_vars

\* The ingest router with no job posted yet: _jobs = {} at import.
InitIngest ==
  /\ chunk_table = <<>>
  /\ cfg = DefaultBuildConfig
  /\ kg_nodes = {}
  /\ kg_edges = {}
  /\ BuildIdle
  /\ query_sim = <<>>
  /\ rcfg = DefaultRetrieverConfig
  /\ RetrieveIdle
  /\ OthersIdle

NextIngest ==
  \/ ingest_file
  \/ ingest_web
  \/ RunIngestStarts
  \/ RunIngestEnds
  \/ ingest_status

SpecIngest == InitIngest /\ [][NextIngest]_vars

\* A caller that has just called the retriever, over a graph that builds have
\* written.
InitCallers ==
  /\ chunk_table = <<>>
  /\ cfg = DefaultBuildConfig
  /\ kg_nodes \in NodeStores
  /\ kg_edges \in CallerEdgeStores
  /\ BuildIdle
  /\ query_sim \in CallerQuerySims
  /\ caller \in Callers
  /\ rcfg \in CallerConfigs(caller)
  /\ RetrieveIdle
  /\ FetchIdle
  /\ ConcurrentIdle
  /\ PruneIdle
  /\ attempt = 1
  /\ a_pc = "retrieving"
  /\ response = <<>>
  /\ IngestIdle
  /\ ContentIdle

NextCallers ==
  \/ EmbedQueryRaises
  \/ RetrieveStart
  \/ VectorSearchRaises
  \/ VisitSeed
  \/ VisitSeedEdgeFetchRaises
  \/ VisitSeedNodeFetchRaises
  \/ AskResponds
  \/ AgentResponds
  \/ WorkflowRoutes
  \/ CallerRaises

SpecCallers == InitCallers /\ [][NextCallers]_vars

\* The same calls, each running on: a call that can take a step takes one.
SpecCallersFair == InitCallers /\ [][NextCallers]_vars /\ WF_vars(NextCallers)

\* C11: the paginated chunk fetch always terminates and returns at most max_chunks
\* chunks.  While the loop runs every page so far was full and fewer than
\* max_chunks chunks are collected, so the loop makes at most one call per
\* batch_size chunks below the cap plus one; it leaves through the empty page,
\* the short page, or the cap, at which the list is cut to exactly max_chunks;
\* over a table nobody writes to it returns the first min(rows, max_chunks) rows.
C11_FetchBounded ==
  /\ Len(f_chunks) <= cfg.max_chunks
  /\ Len(_fetch_all_chunks_paginated(chunk_table, cfg)) <= cfg.max_chunks
  /\ f_pc = "paging" =>
       /\ f_offset = f_pages * cfg.batch_size
       /\ Len(f_chunks) = f_offset
       /\ Len(f_chunks) < cfg.max_chunks
  /\ f_pages > 0 => (f_pages - 1) * cfg.batch_size < cfg.max_chunks
  /\ f_pc = "done" =>
       /\ f_stop \in {"empty", "short", "cap"}
       /\ f_stop = "cap" => Len(f_chunks) = cfg.max_chunks
       /\ f_changes = 0 =>
            /\ f_chunks = _fetch_all_chunks_paginated(chunk_table, cfg)
            /\ f_chunks = SubSeq(chunk_table, 1, Min(Len(chunk_table), cfg.max_chunks))

C11_FetchTerminates == []C11_FetchBounded /\ <>(f_pc \in {"done", "raised"})

\* a page brought more rows than the cap leaves room for, and the list was cut
C11_Witness ==
  /\ f_pc = "done"
  /\ f_stop = "cap"
  /\ Len(f_chunks) = cfg.max_chunks
  /\ Len(chunk_table) > cfg.max_chunks
  /\ cfg.batch_size > cfg.max_chunks

\* C12: within one build call every node upsert happens before the first edge
\* upsert (while nodes are being upserted no edge has been, and once an edge has
\* been upserted every valid chunk's node has), and every edge upsert passes as
\* src_id and dst_id the surrogate ids of the rows that this call's upsert_node
\* calls for the chunks at positions i and j wrote.
C12_NodesBeforeEdges ==
  /\ pc = "nodes" => edge_calls = <<>>
  /\ edge_calls # <<>> => Len(node_calls) = Len(valid_chunks)
  /\ \A k \in 1..Len(edge_calls) :
       /\ edge_calls[k].i \in 1..Len(node_calls)
       /\ edge_calls[k].j \in 1..Len(node_calls)
       /\ edge_calls[k].src_id = NodeIdOf(kg_nodes, Tenant, Client, node_calls[edge_calls[k].i])
       /\ edge_calls[k].dst_id = NodeIdOf(kg_nodes, Tenant, Client, node_calls[edge_calls[k].j])

\* a build that drew edges between chunks whose ids are not their nodes' ids
C12_Witness ==
  /\ FullBuildReturned
  /\ Len(edge_calls) >= 2
  /\ \E k \in 1..Len(edge_calls) : edge_calls[k].dst_id # valid_chunks[edge_calls[k].j].id

\* The graph by natural key: the chunk a node stands for, and an edge as the
\* node keys of its endpoints with its relation, weight and flag.
NodeKeyViewOf(nodes) == {r.node_key : r \in nodes}

EdgeViewOf(nodes, edges) ==
  {[src_key |-> (CHOOSE n \in nodes : n.id = r.src_id).node_key,
    dst_key |-> (CHOOSE n \in nodes : n.id = r.dst_id).node_key,
    rel_type |-> r.rel_type, weight |-> r.weight, is_active |-> r.is_active] : r \in edges}

\* The graph one build of the chunk table leaves in an empty store: a node per
\* valid chunk, an active edge per drawn pair.
SingleBuildValid == SelectSeq(_fetch_all_chunks_paginated(chunk_table, cfg), IsValidChunk)

SingleBuildNodeKeys == {<<"chunk", SingleBuildValid[k].id>> : k \in 1..Len(SingleBuildValid)}

SingleBuildEdges ==
  {[src_key |-> <<"chunk", SingleBuildValid[e.i].id>>,
    dst_key |-> <<"chunk", SingleBuildValid[e.j].id>>,
    rel_type |-> cfg.rel_type, weight |-> e.weight, is_active |-> TRUE] :
     e \in Range(EdgePlan(SingleBuildValid, cfg))}

\* C13: two build calls over the same scope, unchanged chunk set and config, with
\* their store calls interleaved in any order: no natural key is ever stored
\* twice, every edge joins two stored nodes, and once both calls have returned
\* the store holds one node per valid chunk and the edge set and weights of a
\* single build.
C13_ConcurrentBuildsSafe ==
  /\ Cardinality(NodeKeys(kg_nodes)) = Cardinality(kg_nodes)
  /\ Cardinality(EdgeKeys(kg_edges)) = Cardinality(kg_edges)
  /\ \A r \in kg_edges : \A x \in {r.src_id, r.dst_id} : \E n \in kg_nodes : n.id = x
  /\ (\A p \in Procs : builds[p].pc = "done") =>
       /\ NodeKeyViewOf(kg_nodes) = SingleBuildNodeKeys
       /\ Cardinality(kg_nodes) = Len(SingleBuildValid)
       /\ \A n \in kg_nodes : n.status = "active" /\ n.tenant = Tenant /\ n.client = Client
       /\ EdgeViewOf(kg_nodes, kg_edges) = SingleBuildEdges
       /\ Cardinality(kg_edges) = Cardinality(SingleBuildEdges)

\* both calls have returned, each having made store calls while the other was
\* between its own, and the graph has three nodes and edges
C13_Witness ==
  /\ \A p \in Procs : builds[p].pc = "done" /\ builds[p].result # <<>>
  /\ \A p \in Procs : builds[p].overlapped
  /\ \A p \in Procs : builds[p].edges_upserted >= 2
  /\ Cardinality(kg_nodes) >= 3
  /\ Cardinality(kg_edges) >= 2

\* C14: a build is safely retryable.  Whenever a build call has run to completion,
\* whatever prefixes of node and edge upserts earlier interrupted calls left in
\* the store, the store is the one an uninterrupted build produces: one node per
\* valid chunk and no other, one edge per drawn pair and no other, each between
\* two different chunks and weighted with their similarity, at or above the
\* threshold.
C14_RetryReachesSingleBuild ==
  (pc = "done" /\ Returned) =>
    /\ Cardinality(NodeKeys(kg_nodes)) = Cardinality(kg_nodes)
    /\ Cardinality(EdgeKeys(kg_edges)) = Cardinality(kg_edges)
    /\ NodeKeyViewOf(kg_nodes) = SingleBuildNodeKeys
    /\ EdgeViewOf(kg_nodes, kg_edges) = SingleBuildEdges
    /\ \A r \in kg_edges :
         /\ r.src_id # r.dst_id
         /\ r.weight >= cfg.similarity_threshold
         /\ \E i \in ValidPositions : \E j \in ValidPositions \ {i} :
              /\ r.src_id = NodeIdOfChunk(valid_chunks[i])
              /\ r.dst_id = NodeIdOfChunk(valid_chunks[j])
              /\ r.weight = Similarity(i, j)

\* a call completed after an earlier call was interrupted part-way through its
\* edge upserts
C14_Witness ==
  /\ pc = "done"
  /\ FullBuildReturned
  /\ runs >= 2
  /\ prev_result = <<>>
  /\ edges_before # {}
  /\ Cardinality(edges_before) < Cardinality(kg_edges)

\* Vocabulary of the prune claims: the store the prune call found, a row of it,
\* and a node's active-edge degree in the store the call left (the degree prune_kg
\* compares, counted after the same call's edge archival).
BeforePrune == pre_prune[1]

NodeBeforePrune(id) == CHOOSE m \in BeforePrune.nodes : m.id = id

DegreeAfterPrune(id) ==
  Cardinality({r \in kg_edges : r.is_active /\ (r.src_id = id \/ r.dst_id = id)})

DegreeBeforePrune(id) ==
  Cardinality({r \in BeforePrune.edges : r.is_active /\ (r.src_id = id \/ r.dst_id = id)})

C16_PruneOnlyFlipsFlags ==
  p_pc = "done" =>
    /\ \A r \in kg_edges : edge_age[EdgeKeyOf(r)] > prune_req.edge_stale_days => ~r.is_active
    /\ Cardinality(kg_edges) = Cardinality(BeforePrune.edges)
    /\ {[r EXCEPT !.is_active = TRUE] : r \in kg_edges}
         = {[r EXCEPT !.is_active = TRUE] : r \in BeforePrune.edges}
    /\ Cardinality(kg_nodes) = Cardinality(BeforePrune.nodes)
    /\ {[n EXCEPT !.status = "active"] : n \in kg_nodes}
         = {[n EXCEPT !.status = "active"] : n \in BeforePrune.nodes}
    /\ DOMAIN node_evidence = DOMAIN BeforePrune.node_evidence
    /\ \A k \in DOMAIN node_evidence :
         node_evidence[k] = Min(BeforePrune.node_evidence[k], prune_req.keep_node_evidence)
    /\ DOMAIN edge_evidence = DOMAIN BeforePrune.edge_evidence
    /\ \A k \in DOMAIN edge_evidence :
         edge_evidence[k] = Min(BeforePrune.edge_evidence[k], prune_req.keep_edge_evidence)

\* one prune call archived an edge both of whose endpoints had min_degree active
\* edges or more, archived a node, and deleted evidence rows
C16_Witness ==
  /\ p_pc = "done"
  /\ \E r \in kg_edges :
       /\ ~r.is_active
       /\ [r EXCEPT !.is_active = TRUE] \in BeforePrune.edges
       /\ DegreeBeforePrune(r.src_id) >= prune_req.min_degree
       /\ DegreeBeforePrune(r.dst_id) >= prune_req.min_degree
  /\ \E n \in kg_nodes : n.status = "archived" /\ NodeBeforePrune(n.id).status = "active"
  /\ prune_result[1].node_evidence_deleted > 0
  /\ prune_result[1].edge_evidence_deleted > 0

\* C17: a build pass un-archives what prune archived.  When a build call that
\* started after the last prune call has completed, the node of every valid chunk
\* has status active and the edge of every upsert_edge call is active.
C17_BuildUnarchives ==
  (pc = "done" /\ FullBuildReturned /\ p_at_run < runs) =>
    /\ \A k \in ValidPositions :
         \E n \in kg_nodes :
           /\ NodeKeyOf(n) = <<Tenant, Client, <<"chunk", valid_chunks[k].id>>>>
           /\ n.status = "active"
    /\ \A k \in 1..Len(edge_calls) :
         \E r \in kg_edges :
           /\ EdgeKeyOf(r) = <<Tenant, Client, edge_calls[k].src_id, edge_calls[k].dst_id,
                               cfg.rel_type>>
           /\ r.is_active

\* a build call completed on a store in which the prune call before it had
\* archived a node and an edge that the build touched
C17_Witness ==
  /\ pc = "done"
  /\ FullBuildReturned
  /\ p_pc = "done"
  /\ p_at_run < runs
  /\ prune_result[1].nodes_archived > 0
  /\ prune_result[1].edges_archived > 0
  /\ \E n \in nodes_before : n.status = "archived" /\ [n EXCEPT !.status = "active"] \in kg_nodes
  /\ \E r \in edges_before : ~r.is_active /\ [r EXCEPT !.is_active = TRUE] \in kg_edges

\* The unordered pairs of valid chunks with similarity >= similarity_threshold.
QualifyingPairs ==
  {p \in ValidPositions \X ValidPositions :
     p[1] < p[2] /\ Similarity(p[1], p[2]) >= cfg.similarity_threshold}

\* the weights of the upsert_edge calls the current build made for i -> j
CallWeights(i, j) ==
  {edge_calls[k].weight : k \in {m \in 1..Len(edge_calls) :
                                   edge_calls[m].i = i /\ edge_calls[m].j = j}}

\* C18: when no valid chunk has more than max_edges_per_chunk qualifying
\* neighbours, the edge set of one build is symmetric and complete: for every
\* unordered pair of valid chunks with similarity >= similarity_threshold both
\* directions are upserted, once each and with the pair's similarity as weight;
\* no upsert_edge call is made for a pair below the threshold; and
\* edges_upserted is twice the number of such pairs.
C18_SymmetricBelowCap ==
  (pc = "done" /\ FullBuildReturned
     /\ \A i \in ValidPositions : Cardinality(Qualifying(i)) <= cfg.max_edges_per_chunk) =>
    /\ \A p \in QualifyingPairs :
         /\ CallWeights(p[1], p[2]) = {Similarity(p[1], p[2])}
         /\ CallWeights(p[2], p[1]) = CallWeights(p[1], p[2])
    /\ \A k \in 1..Len(edge_calls) :
         \/ <<edge_calls[k].i, edge_calls[k].j>> \in QualifyingPairs
         \/ <<edge_calls[k].j, edge_calls[k].i>> \in QualifyingPairs
    /\ Len(edge_calls) = 2 * Cardinality(QualifyingPairs)
    /\ result[1].edges_upserted = 2 * Cardinality(QualifyingPairs)

\* three valid chunks of which two pairs are at or above the threshold and one is
\* below it: 4 edges and 3 nodes
C18_Witness ==
  /\ pc = "done"
  /\ FullBuildReturned
  /\ \A i \in ValidPositions : Cardinality(Qualifying(i)) <= cfg.max_edges_per_chunk
  /\ Len(valid_chunks) = 3
  /\ Cardinality(QualifyingPairs) = 2
  /\ result[1].edges_upserted = 4
  /\ result[1].nodes_upserted = 3

\* Vocabulary of the caller claims: what the caller handed back as documents or
\* sources, and a Document as the caller sees it.
ReturnedDocuments ==
  IF caller = "workflow" THEN response[1].documents ELSE response[1].sources

AsReturned(d) ==
  [node_id |-> d.node_id, has_score |-> d.has_score,
   similarity_score |-> d.similarity_score, source |-> d.source]

\* C19: when the first document's similarity score is below 0.60, a caller that
\* has answered gave the low-confidence answer and handed back exactly the
\* documents the retriever returned, in the retriever's order (the workflow: those
\* of its last retriever call); and the retriever does not filter by the gate:
\* each seed the vector search returned is in its output whatever its similarity.
C19_GateKeepsDocuments ==
  /\ (a_pc = "responded" /\ documents # <<>> /\ documents[1].similarity_score < 60000) =>
       /\ response[1].answer = "low_confidence"
       /\ Len(ReturnedDocuments) = Len(documents)
       /\ \A k \in 1..Len(documents) :
            AsReturned(ReturnedDocuments[k]) = AsReturned(documents[k])
  /\ r_pc = "done" =>
       \A k \in 1..Len(seed_nodes) : \E m \in 1..Len(documents) :
         documents[m].node_id = seed_nodes[k].id

\* the workflow ended in no_results after its second retriever call and handed
\* back that call's documents, seeds below 0.60 and an expansion among them
C19_Witness ==
  /\ caller = "workflow"
  /\ a_pc = "responded"
  /\ attempt = 2
  /\ response[1].answer = "low_confidence"
  /\ Len(response[1].documents) >= 3
  /\ response[1].documents = documents
  /\ \E k \in 1..Len(documents) : documents[k].source = "graph_expansion"
  /\ \A k \in 1..Len(documents) :
       documents[k].has_score => documents[k].similarity_score < 60000

\* Vocabulary of the hop_limit claim: a step of the retrieve call with
\* hop_limit read as h, an edge the expansion query can follow, and a node that
\* only a neighbour of a seed leads to.
RetrieveStepAt(h) ==
  \/ EmbedQueryRaises
  \/ RetrieveStart
  \/ VectorSearchRaises
  \/ VisitSeedAt(h)
  \/ VisitSeedEdgeFetchRaisesAt(h)
  \/ VisitSeedNodeFetchRaisesAt(h)

Followable(a, b) ==
  \E r \in kg_edges : /\ r.tenant = Tenant /\ r.client = Client /\ r.is_active
                       /\ r.src_id = a /\ r.dst_id = b /\ r.weight >= rcfg.min_edge_weight

SeedIds == {seed_nodes[k].id : k \in 1..Len(seed_nodes)}

OnlyThroughNeighbour(n) ==
  /\ n \notin SeedIds
  /\ \A a \in SeedIds : ~Followable(a, n)
  /\ \E a \in SeedIds : \E b \in NodeIds \ SeedIds : Followable(a, b) /\ Followable(b, n)

\* C20: with hop_limit 1 or more, each step the retrieve call takes is a step of
\* the call with hop_limit 1, with hop_limit 2 and with hop_limit 3, so the
\* returned sequences are the same ones; and a node that only a neighbour of a
\* seed leads to is never among the documents.
C20_OneLevelOfExpansion ==
  /\ [][rcfg.hop_limit >= 1 =>
         RetrieveStepAt(1) /\ RetrieveStepAt(2) /\ RetrieveStepAt(3)]_vars
  /\ [](\A m \in 1..Len(documents) : ~OnlyThroughNeighbour(documents[m].node_id))

\* a call with hop_limit 3 returned a seed and its neighbour, and left out the
\* active node that only the neighbour leads to
C20_Witness ==
  /\ r_pc = "done"
  /\ rcfg.hop_limit = 3
  /\ io_errors = <<>>
  /\ \E m \in 1..Len(documents) : documents[m].source = "graph_expansion"
  /\ \E n \in NodeIds :
       /\ OnlyThroughNeighbour(n)
       /\ \E r \in kg_nodes : r.id = n /\ r.tenant = Tenant /\ r.status = "active"
       /\ \A m \in 1..Len(documents) : documents[m].node_id # n

\* C21: a build call that fetched no chunk, or no chunk with a valid embedding,
\* has returned (it raised nothing) a result with nodes_upserted = 0,
\* edges_upserted = 0 and the note of its case, and has made no node or edge
\* upsert: the store is as the call found it.
C21_EmptyResultsAreNotErrors ==
  (runs > 0 /\ valid_chunks = <<>>) =>
    /\ pc = "done"
    /\ raised = ""
    /\ Len(result) = 1
    /\ result[1].nodes_upserted = 0
    /\ result[1].edges_upserted = 0
    /\ result[1].note = IF all_chunks = <<>> THEN "No embedded chunks found."
                        ELSE "No chunks had valid embeddings."
    /\ node_calls = <<>>
    /\ edge_calls = <<>>
    /\ kg_nodes = nodes_before
    /\ kg_edges = edges_before

\* a second call over chunks none of which has a valid embedding, one of them a
\* list of the wrong length, returned the note
C21_Witness ==
  /\ runs = 2
  /\ pc = "done"
  /\ Len(all_chunks) >= 2
  /\ valid_chunks = <<>>
  /\ \E k \in 1..Len(all_chunks) : all_chunks[k].embedding.is_list
  /\ result = <<NoValidResult(all_chunks, Len(all_chunks))>>
  /\ prev_result = result

\* C22: a build deletes and deactivates nothing: each node the store held when
\* the current build call started is still there under its id and key, as it
\* was if this call has not upserted it and active if it has; each edge is still
\* there under its key, as it was (weight and is_active) if this call has not
\* upserted it and active if it has.
C22_BuildKeepsTheStore ==
  runs > 0 =>
    /\ \A r \in nodes_before : \E q \in kg_nodes :
         /\ q.id = r.id
         /\ NodeKeyOf(q) = NodeKeyOf(r)
         /\ IF \E k \in 1..Len(node_calls) : node_calls[k] = r.node_key
            THEN q.status = "active"
            ELSE q = r
    /\ \A e \in edges_before : \E q \in kg_edges :
         /\ EdgeKeyOf(q) = EdgeKeyOf(e)
         /\ IF \E k \in 1..Len(edge_calls) :
                 <<edge_calls[k].src_id, edge_calls[k].dst_id>> = <<e.src_id, e.dst_id>>
            THEN q.is_active
            ELSE q = e

\* a rebuild at a higher threshold returned after upserting an edge, and the
\* store still holds an active edge of the earlier build whose weight is below
\* the threshold and which this call did not upsert
C22_Witness ==
  /\ runs = 2
  /\ pc = "done"
  /\ edge_calls # <<>>
  /\ \E e \in edges_before :
       /\ e \in kg_edges
       /\ e.is_active
       /\ e.weight < cfg.similarity_threshold
       /\ \A k \in 1..Len(edge_calls) :
            <<edge_calls[k].src_id, edge_calls[k].dst_id>> # <<e.src_id, e.dst_id>>

\* C23: each answer of GET /ingest/status/{job_id} for a job_id that a 202
\* response carried finds the job: it is a 200 with a status among running,
\* complete and failed, never a 404.
C23_ReturnedJobCanBePolled ==
  poll # <<>> =>
    /\ poll[1].code = 200
    /\ poll[1].status \in {"running", "complete", "failed"}

\* C24: each graph_expansion item is a node with status active and the
\* destination of an edge of the retriever's tenant and client that is active,
\* weighs min_edge_weight or more and starts at a seed emitted earlier in the
\* sequence; a seed contributes at most max_neighbours expansion items; and with
\* at most top_k seeds the sequence has at most top_k * (1 + max_neighbours) items.
C24_ExpansionsAreNeighbours ==
  /\ \A a \in DocPositions :
       documents[a].source = "graph_expansion" =>
         /\ \E n \in kg_nodes : n.id = documents[a].node_id /\ n.status = "active"
         /\ \E b \in 1..(a - 1) :
              /\ documents[b].source = "vector"
              /\ \E e \in kg_edges :
                   /\ e.tenant = Tenant /\ e.client = Client
                   /\ e.is_active
                   /\ e.weight >= rcfg.min_edge_weight
                   /\ e.src_id = documents[b].node_id
                   /\ e.dst_id = documents[a].node_id
  /\ \A s \in NodeIds :
       Cardinality({a \in DocPositions : /\ documents[a].source = "graph_expansion"
                                         /\ documents[a].via = s}) <= rcfg.max_neighbours
  /\ Len(seed_nodes) <= rcfg.top_k =>
       Len(documents) <= rcfg.top_k * (1 + rcfg.max_neighbours)

\* a call returned a seed with an expansion, and left out an active node that
\* only an edge of another scope leads to from a seed
C24_Witness ==
  /\ r_pc = "done"
  /\ io_errors = <<>>
  /\ \E a \in DocPositions : documents[a].source = "graph_expansion"
  /\ \E e \in kg_edges :
       /\ <<e.tenant, e.client>> # <<Tenant, Client>>
       /\ \E b \in DocPositions :
            documents[b].source = "vector" /\ documents[b].node_id = e.src_id
       /\ \E n \in kg_nodes : n.id = e.dst_id /\ n.status = "active"
       /\ \A a \in DocPositions : documents[a].node_id # e.dst_id

\* Vocabulary of the content claim: the chunk text could be fetched, and a
\* source holds a text.
ChunkTextFetched ==
  /\ d_node.has_chunk_id
  /\ ~d_chunk.raises
  /\ d_chunk.data # <<>>
  /\ d_chunk.data[1].content \notin {<<>>, <<"">>}

HoldsText(v) == v \notin {<<>>, <<"">>}

\* C25: the content of a returned Document follows the order chunk text, node
\* description, node name, empty string: it is the chunk's text whenever that
\* could be fetched, else the description if the node has one, else the name if
\* it has one, else ""; the call returns a Document whatever the chunks query
\* did.
C25_ContentFallbackOrder ==
  d_doc # <<>> =>
    d_doc[1].page_content =
      IF ChunkTextFetched THEN d_chunk.data[1].content[1]
      ELSE IF HoldsText(d_node.description) THEN d_node.description[1]
      ELSE IF HoldsText(d_node.name) THEN d_node.name[1]
      ELSE ""

\* the chunk fetch raised for a Chunk node without a description, and the
\* Document carries the node's name
C25_Witness ==
  /\ d_doc # <<>>
  /\ d_node.has_chunk_id
  /\ d_chunk.raises
  /\ d_node.description = <<"">>
  /\ d_doc[1].page_content = "Chunk 0"

\* Vocabulary of the workflow claim: the confidence the workflow grades the
\* returned documents with, and what holds of the retries and routes at every
\* step.
WorkflowConfidence ==
  IF documents = <<>> THEN 0 ELSE documents[1].similarity_score

WorkflowGraded == caller = "workflow" /\ a_pc = "retrieving" /\ r_pc = "done"

WorkflowRetriesOnce ==
  /\ [](caller = "workflow" =>
          /\ attempt \in {1, 2}
          /\ rcfg.top_k = (IF attempt = 1 THEN 5 ELSE 10)
          /\ rcfg.hop_limit = attempt
          /\ a_pc = "responded" =>
               IF response[1].confidence < 60000
               THEN /\ attempt = 2
                    /\ response[1].route = "no_results"
                    /\ response[1].answer = "low_confidence"
               ELSE /\ response[1].route = "build_context"
                    /\ response[1].answer \in {"generated", "generation_failed"})
  /\ [][(WorkflowGraded /\ attempt = 1 /\ WorkflowConfidence < 60000) =>
          /\ attempt' = 2
          /\ r_pc' = "idle"
          /\ a_pc' = "retrieving"
          /\ rcfg'.top_k = 10
          /\ rcfg'.hop_limit = 2]_vars
  /\ [][(WorkflowGraded /\ attempt = 2 /\ WorkflowConfidence < 60000) =>
          /\ a_pc' = "responded"
          /\ response'[1].route = "no_results"]_vars
  /\ [][(WorkflowGraded /\ WorkflowConfidence >= 60000) =>
          /\ a_pc' = "responded"
          /\ response'[1].route = "build_context"]_vars

\* C26 as stated: the retrieve node runs at most twice, a first attempt below
\* 0.60 leads to the second attempt (top_k 10, hop_limit 2), a second attempt
\* below 0.60 leads to no_results, a confidence of 0.60 or more leads to
\* build_context and generate, and every invocation reaches END.
C26_EveryInvocationReachesEND ==
  /\ WorkflowRetriesOnce
  /\ caller = "workflow" => <>(a_pc = "responded")

\* C26: the retrieve node runs at most twice, a first attempt below 0.60 leads
\* to the second attempt (top_k 10, hop_limit 2), a second attempt below 0.60
\* leads to no_results, a confidence of 0.60 or more leads to build_context and
\* generate, and every invocation reaches END or ends with the exception that a
\* retriever call raised.
C26_OneRetryThenEnd ==
  /\ WorkflowRetriesOnce
  /\ caller = "workflow" => <>(a_pc = "responded" \/ a_pc = "raised")

\* the workflow retried with top_k 10 and hop_limit 2, found documents below
\* 0.60 again and ended in no_results
C26_Witness ==
  /\ caller = "workflow"
  /\ a_pc = "responded"
  /\ attempt = 2
  /\ rcfg.top_k = 10
  /\ rcfg.hop_limit = 2
  /\ response[1].route = "no_results"
  /\ response[1].documents # <<>>

\* Vocabulary of the batch claim: the item outcomes of the finalised batch.
BatchItems == batch_entry[1].items

ItemsFailed == {k \in 1..Len(BatchItems) : BatchItems[k] = "failed"}

C28_NoSelfLoop ==
  \A k \in 1..Len(edge_calls) : edge_calls[k].src_id # edge_calls[k].dst_id

\* the calls of the current build from position a to position b
Upserted(a, b) == b \in Kept(a)

\* the qualifying neighbours of b other than a that are at least as similar to b
\* as a is
AtLeastAsSimilar(b, a) ==
  {k \in Qualifying(b) \ {a} : Similarity(b, k) >= Similarity(a, b)}

\* C29: edge asymmetry within one build comes only from the fan-out cap: when a
\* build that returned has upserted a -> b but not b -> a, b has at least
\* max_edges_per_chunk qualifying neighbours at least as similar to b as a is;
\* and whenever both a -> b and b -> a are upserted they carry one and the same
\* weight.
C29_AsymmetryOnlyFromCap ==
  FullBuildReturned =>
    \A a \in ValidPositions : \A b \in ValidPositions :
      Upserted(a, b) =>
        /\ ~Upserted(b, a) =>
             Cardinality(AtLeastAsSimilar(b, a)) >= cfg.max_edges_per_chunk
        /\ Upserted(b, a) =>
             /\ Cardinality(CallWeights(a, b)) = 1
             /\ CallWeights(a, b) = CallWeights(b, a)

\* a build that kept a -> b and dropped b -> a at the cap, and kept another pair
\* in both directions
C29_Witness ==
  /\ FullBuildReturned
  /\ \E a \in ValidPositions : \E b \in ValidPositions :
       /\ Upserted(a, b)
       /\ ~Upserted(b, a)
       /\ a \in Qualifying(b)
       /\ Cardinality(AtLeastAsSimilar(b, a)) = cfg.max_edges_per_chunk
  /\ \E a \in ValidPositions : \E b \in ValidPositions :
       Upserted(a, b) /\ Upserted(b, a)

\* the similarity_score the top-ranked seed's Document carries
TopSeedScore == Round4(seed_nodes[1].similarity)

\* C30: whenever the vector search returned at least one seed, the first item of
\* the retrieve result is the first seed, which no other seed outranks, tagged
\* "vector" and carrying that seed's similarity rounded to four places, for every
\* hop_limit and edge set; so the gate of each caller answers low confidence
\* exactly when that score is below 0.60, and reports it as its confidence.
C30_FirstDocumentIsTopSeed ==
  /\ (r_pc = "done" /\ seed_nodes # <<>>) =>
       /\ documents # <<>>
       /\ documents[1].node_id = seed_nodes[1].id
       /\ documents[1].source = "vector"
       /\ documents[1].has_score
       /\ documents[1].similarity_score = TopSeedScore
       /\ \A k \in 1..Len(seed_nodes) :
            seed_nodes[k].similarity <= seed_nodes[1].similarity
  /\ (a_pc = "responded" /\ seed_nodes # <<>>) =>
       /\ response[1].answer = "low_confidence" <=> BelowGate(TopSeedScore)
       /\ caller \in {"agent", "workflow"} => response[1].confidence = TopSeedScore

\* a caller answered low confidence over a result whose first item is the top
\* seed and whose last item is a graph expansion
C30_Witness ==
  /\ a_pc = "responded"
  /\ seed_nodes # <<>>
  /\ documents[1].source = "vector"
  /\ documents[Len(documents)].source = "graph_expansion"
  /\ rcfg.hop_limit >= 1
  /\ BelowGate(TopSeedScore)
  /\ response[1].answer = "low_confidence"

====
